---- MODULE Spec2Model ----
(***************************************************************************)
(* A model of ns_mi::T_MultiIndex (src/MultiIndex.h): one primary map that *)
(* owns the records, two secondary maps derived from the payload, the      *)
(* relocation policy (NoInv, UpdatePointer, TranslationArray, KeyLookup),  *)
(* optional tombstones with the live counter, and the mutating operations. *)
(*                                                                         *)
(* Maps are sequences kept sorted by key; equal keys keep insertion order  *)
(* (std::map / std::multimap / flat_map iteration order).  A handle is the *)
(* address of a primary pair: a node id for a node-stable primary, the     *)
(* slot of the buffer for a relocating (contiguous) primary.  Iterators    *)
(* are positions in the sequence, End standing for end().                  *)
(*                                                                         *)
(* mi is the container the calls act on and last the call that has just    *)
(* returned.  other is a second container (copy, move and swap), proxy the *)
(* C_EditProxy that operator[] has handed out, and procs the threads that  *)
(* run emplace and find concurrently; each is used by the specification    *)
(* that is about it and stays as initialised in the others.                *)
(***************************************************************************)
EXTENDS Integers, Sequences, FiniteSets, TLC

VARIABLES cfg, mi, last, other, proxy, procs

vars == <<cfg, mi, last, other, proxy, procs>>

(***************************************************************************)
(* Bounds of the model.                                                    *)
(***************************************************************************)
MaxKey == 2
MaxVal == 2
MaxRecs == 2
MaxUnder == 1
MaxEqual == 3

Keys == 1..MaxKey
Vals == 1..MaxVal
Payloads == Vals \X Vals
Secs == 1..2
MaxAddr == MaxRecs + 1
Addrs == 1..MaxAddr
MaxTransl == MaxRecs + 1
NullH == 0
End == 0
TmpId == 3

(***************************************************************************)
(* Instantiations: policy, tombstones, primary kind, secondary kinds.      *)
(***************************************************************************)
Config(p, t, r, pu, s1, s2) ==
  [policy |-> p, tombs |-> t, reloc |-> r, prim_unique |-> pu, sec_unique |-> <<s1, s2>>]

Configs ==
  { Config("NoInv", FALSE, FALSE, TRUE, FALSE, TRUE),
    Config("NoInv", FALSE, FALSE, FALSE, TRUE, FALSE),
    Config("UpdatePointer", FALSE, TRUE, TRUE, FALSE, TRUE),
    Config("UpdatePointer", TRUE, FALSE, TRUE, FALSE, TRUE),
    Config("UpdatePointer", TRUE, FALSE, FALSE, TRUE, FALSE),
    Config("TranslationArray", FALSE, TRUE, TRUE, TRUE, FALSE),
    Config("TranslationArray", TRUE, FALSE, TRUE, FALSE, TRUE),
    Config("KeyLookup", FALSE, FALSE, TRUE, FALSE, TRUE) }

c_invalidates == cfg.policy \in {"UpdatePointer", "TranslationArray"}
c_stores_handle == cfg.policy \in {"NoInv", "UpdatePointer"}
c_needs_translation_array == cfg.policy = "TranslationArray"
c_tombstones == cfg.tombs
c_primary_is_unique == cfg.prim_unique
is_unique_v(i) == cfg.sec_unique[i]

(***************************************************************************)
(* Projection of secondary i: a member pointer into the payload.           *)
(***************************************************************************)
Project(i, k, p) == p[i]

(***************************************************************************)
(* Sorted-sequence maps.                                                   *)
(***************************************************************************)
InsertAt(s, p, e) == SubSeq(s, 1, p - 1) \o <<e>> \o SubSeq(s, p, Len(s))
RemoveAt(s, p) == SubSeq(s, 1, p - 1) \o SubSeq(s, p + 1, Len(s))
LowerBound(m, k) == Cardinality({j \in DOMAIN m : m[j].first < k}) + 1
UpperBound(m, k) == Cardinality({j \in DOMAIN m : m[j].first <= k}) + 1
EqualRange(m, k) == LowerBound(m, k)..(UpperBound(m, k) - 1)
SetMin(S) == CHOOSE x \in S : \A y \in S : x <= y

RECURSIVE Tuple(_, _)
Tuple(f, n) == IF n = 0 THEN <<>> ELSE Append(Tuple(f, n - 1), f[n])

(***************************************************************************)
(* The container and its records.                                          *)
(***************************************************************************)
EmptyMI(id) ==
  [self |-> id, buf |-> id, m_storage |-> <<>>, m_second |-> <<<<>>, <<>>>>,
   transl |-> <<>>, m_live |-> 0]

T_PayloadWrap(k, v) ==
  [first |-> k, m_value |-> v, dead |-> FALSE, m_p_owner |-> 0, trans_idx |-> 0, addr |-> NullH]

SlotAddr(buf, j) == buf * (MaxRecs + 1) + j

IdxOf(c, h) == CHOOSE j \in DOMAIN c.m_storage : c.m_storage[j].addr = h
Pair(c, h) == c.m_storage[IdxOf(c, h)]
HasPair(c, h) == \E j \in DOMAIN c.m_storage : c.m_storage[j].addr = h

KeepLive(c) == c

IncrementLive(c) == IF c_tombstones THEN [c EXCEPT !.m_live = @ + 1] ELSE c
DecrementLive(c) == IF c_tombstones THEN [c EXCEPT !.m_live = @ - 1] ELSE c
size(c) == IF c_tombstones THEN c.m_live ELSE Len(c.m_storage)

(***************************************************************************)
(* Policy callbacks.                                                       *)
(***************************************************************************)
TranslAt(c, idx) == IF idx + 1 \in DOMAIN c.transl THEN c.transl[idx + 1] ELSE NullH

PrimFind(c, k) ==
  LET S == {j \in DOMAIN c.m_storage : c.m_storage[j].first = k}
  IN IF S = {} THEN End ELSE SetMin(S)

ToHandle(c, v) ==
  CASE cfg.policy = "TranslationArray" -> TranslAt(c, v)
    [] cfg.policy = "KeyLookup" ->
         IF PrimFind(c, v) = End THEN NullH ELSE c.m_storage[PrimFind(c, v)].addr
    [] OTHER -> v

MatchSecondary(c, e, h) ==
  CASE cfg.policy = "TranslationArray" -> TranslAt(c, e.second) = h
    [] cfg.policy = "KeyLookup" -> e.second = Pair(c, h).first
    [] OTHER -> e.second = h

GetSecondaryValue(c, h) ==
  CASE cfg.policy = "TranslationArray" -> Pair(c, h).trans_idx
    [] cfg.policy = "KeyLookup" -> Pair(c, h).first
    [] OTHER -> h

PatchRange(m, k, old_h, new_h) ==
  Tuple([j \in DOMAIN m |->
           IF j \in EqualRange(m, k) /\ m[j].second = old_h
           THEN [m[j] EXCEPT !.second = new_h] ELSE m[j]], Len(m))

OnRelocate_stale(c, rec, old_h, new_h) == c

OnRelocate(c, rec, old_h, new_h) ==
  IF rec.m_p_owner # c.self THEN c
  ELSE CASE cfg.policy = "UpdatePointer" ->
              [c EXCEPT !.m_second =
                 <<PatchRange(c.m_second[1], Project(1, rec.first, rec.m_value), old_h, new_h),
                   PatchRange(c.m_second[2], Project(2, rec.first, rec.m_value), old_h, new_h)>>]
         [] cfg.policy = "TranslationArray" ->
              [c EXCEPT !.transl =
                 Tuple([s \in DOMAIN c.transl |->
                          IF s = rec.trans_idx + 1 THEN new_h ELSE c.transl[s]],
                       Len(c.transl))]
         [] OTHER -> c

OnEmplaceSuccess_noidx(c, h) ==
  IF c_needs_translation_array THEN [c EXCEPT !.transl = Append(@, h)] ELSE c

OnEmplaceSuccess(c, h) ==
  IF c_needs_translation_array
  THEN [c EXCEPT !.transl = Append(@, h),
                 !.m_storage[IdxOf(c, h)].trans_idx = Len(c.transl)]
  ELSE c

OnEmplaceFail(c) ==
  IF c_needs_translation_array /\ c.transl # <<>>
  THEN [c EXCEPT !.transl = SubSeq(@, 1, Len(@) - 1)]
  ELSE c

(***************************************************************************)
(* Primary storage: insertion and physical erase.  A relocating primary    *)
(* moves the records behind the position one slot at a time, each move     *)
(* firing OnRelocate from the wrapper's move operation.                    *)
(***************************************************************************)
Restamp(s, buf) == Tuple([j \in DOMAIN s |-> [s[j] EXCEPT !.addr = SlotAddr(buf, j)]], Len(s))

RECURSIVE RelocUp(_, _, _, _)
RelocUp(c, s, j, p) ==
  IF j < p THEN c
  ELSE RelocUp(OnRelocate(c, s[j], SlotAddr(c.buf, j), SlotAddr(c.buf, j + 1)), s, j - 1, p)

RECURSIVE RelocDown(_, _, _)
RelocDown(c, s, j) ==
  IF j > Len(s) THEN c
  ELSE RelocDown(OnRelocate(c, s[j], SlotAddr(c.buf, j), SlotAddr(c.buf, j - 1)), s, j + 1)

PrimInsert(c, p, w, a) ==
  IF cfg.reloc
  THEN LET c1 == RelocUp(c, c.m_storage, Len(c.m_storage), p)
       IN [c1 EXCEPT !.m_storage = Restamp(InsertAt(c.m_storage, p, w), c.buf)]
  ELSE [c EXCEPT !.m_storage = InsertAt(@, p, [w EXCEPT !.addr = a])]

PrimErase(c, p) ==
  IF cfg.reloc
  THEN LET c1 == RelocDown(c, c.m_storage, p + 1)
       IN [c1 EXCEPT !.m_storage = Restamp(RemoveAt(c.m_storage, p), c.buf)]
  ELSE [c EXCEPT !.m_storage = RemoveAt(@, p)]

(***************************************************************************)
(* Faulty variants of the rollback steps, used to show that the properties *)
(* below depend on them.                                                   *)
(***************************************************************************)
DropNothing(c, i, h) == c
RollbackNone(c, h, i) == c
DropSecsNone(c, h, ignore) == c
emplace_exists_end(c, j) == [c |-> c, res |-> "exists", ok |-> FALSE, it |-> End, at |-> 0]

(***************************************************************************)
(* DropSecs / Rollback / AddSecs.                                          *)
(***************************************************************************)
DropOne(c, i, h) ==
  LET m == c.m_second[i]
      k == Project(i, Pair(c, h).first, Pair(c, h).m_value)
      hit == {j \in EqualRange(m, k) : MatchSecondary(c, m[j], h)}
  IN IF hit = {} THEN c ELSE [c EXCEPT !.m_second[i] = RemoveAt(m, SetMin(hit))]

RECURSIVE DropFrom(_, _, _, _)
DropFrom(c, h, i, ignore) ==
  IF i \notin Secs THEN c
  ELSE DropFrom(IF i = ignore THEN c ELSE DropOne(c, i, h), h, i + 1, ignore)

DropSecs(c, h, ignore) == DropFrom(c, h, 1, ignore)

RECURSIVE RollbackFrom(_, _, _, _)
RollbackFrom(c, h, j, i) ==
  IF j \notin Secs THEN c
  ELSE RollbackFrom(IF j < i THEN DropOne(c, j, h) ELSE c, h, j + 1, i)

Rollback(c, h, i) == RollbackFrom(c, h, 1, i)

SecInsert(c, i, h) ==
  LET m == c.m_second[i]
      k == Project(i, Pair(c, h).first, Pair(c, h).m_value)
  IN [c EXCEPT !.m_second[i] =
        InsertAt(m, UpperBound(m, k), [first |-> k, second |-> GetSecondaryValue(c, h)])]

SecHasKey(c, i, h) ==
  EqualRange(c.m_second[i], Project(i, Pair(c, h).first, Pair(c, h).m_value)) # {}

RECURSIVE AddSecsFrom(_, _, _, _)
AddSecsFrom(c, h, i, thr) ==
  IF i \notin Secs THEN [c |-> c, res |-> "ok", at |-> 0]
  ELSE IF thr = i THEN [c |-> DropSecs(c, h, 0), res |-> "throw", at |-> i]
  ELSE IF is_unique_v(i) /\ SecHasKey(c, i, h)
       THEN [c |-> Rollback(c, h, i), res |-> "fail", at |-> i]
  ELSE AddSecsFrom(SecInsert(c, i, h), h, i + 1, thr)

AddSecs(c, h, thr) == AddSecsFrom(c, h, 1, thr)

(***************************************************************************)
(* emplace(k, v).  thr is the secondary whose insertion throws (0: none);  *)
(* a is the address the allocator gives a new node of a node-stable map.   *)
(***************************************************************************)
Ret(c, res, ok, it, at) == [c |-> c, res |-> res, ok |-> ok, it |-> it, at |-> at]

SetOwner(c, j) ==
  IF c_invalidates THEN [c EXCEPT !.m_storage[j].m_p_owner = c.self] ELSE c

emplace_revive_flag_only(c, j, v, thr) ==
  Ret(IncrementLive([c EXCEPT !.m_storage[j].dead = FALSE]), "revived", TRUE, j, 0)

emplace_revive(c, j, v, thr) ==
  LET h == c.m_storage[j].addr
      c1 == SetOwner([c EXCEPT !.m_storage[j].dead = FALSE,
                               !.m_storage[j].m_value = v], j)
      r == AddSecs(c1, h, thr)
  IN CASE r.res = "ok" -> Ret(IncrementLive(r.c), "revived", TRUE, j, 0)
       [] r.res = "fail" ->
            Ret([r.c EXCEPT !.m_storage[j].dead = TRUE], "sec_reject_revive", FALSE, End, r.at)
       [] OTHER ->
            Ret([r.c EXCEPT !.m_storage[j].dead = TRUE], "throw_revive", FALSE, End, r.at)

emplace_new(c, k, v, thr, a) ==
  LET p == UpperBound(c.m_storage, k)
      c1 == SetOwner(PrimInsert(c, p, T_PayloadWrap(k, v), a), p)
      h == c1.m_storage[p].addr
      c2 == OnEmplaceSuccess(c1, h)
      r == AddSecs(c2, h, thr)
  IN CASE r.res = "ok" -> Ret(IncrementLive(r.c), "inserted", TRUE, p, 0)
       [] r.res = "fail" -> Ret(PrimErase(OnEmplaceFail(r.c), p), "sec_reject", FALSE, End, r.at)
       [] OTHER -> Ret(PrimErase(OnEmplaceFail(r.c), p), "throw", FALSE, End, r.at)

emplace_exists(c, j) == Ret(c, "exists", FALSE, j, 0)

emplace(c, k, v, thr, a) ==
  LET j == PrimFind(c, k)
  IN IF c_primary_is_unique /\ j # End
     THEN IF c_tombstones /\ c.m_storage[j].dead
          THEN emplace_revive(c, j, v, thr)
          ELSE emplace_exists(c, j)
     ELSE emplace_new(c, k, v, thr, a)

(***************************************************************************)
(* Iterators of the primary: positions, Len + 1 being end().  Under        *)
(* tombstones a T_LiveIter skips dead records when it is built and when    *)
(* it is incremented.                                                      *)
(***************************************************************************)
EndPos(c) == Len(c.m_storage) + 1

RECURSIVE SkipDead(_, _)
SkipDead(c, p) ==
  IF p < EndPos(c) /\ c.m_storage[p].dead THEN SkipDead(c, p + 1) ELSE p

ToIterator(c, p) == IF c_tombstones THEN SkipDead(c, p) ELSE p

ItOut(c, p) == IF p >= EndPos(c) THEN End ELSE p

(***************************************************************************)
(* Lookup on the primary: find, contains, equal_range, count, and the      *)
(* records a loop over an iterator range visits.                           *)
(***************************************************************************)
RECURSIVE SkipDeadTo(_, _, _)
SkipDeadTo(c, p, l) ==
  IF p < l /\ c.m_storage[p].dead THEN SkipDeadTo(c, p + 1, l) ELSE p

find_raw(c, k) ==
  IF EqualRange(c.m_storage, k) = {} THEN EndPos(c) ELSE LowerBound(c.m_storage, k)

equal_range_raw(c, k) == <<LowerBound(c.m_storage, k), UpperBound(c.m_storage, k)>>

find(c, k) ==
  LET it == LowerBound(c.m_storage, k)
      it_l == UpperBound(c.m_storage, k)
  IN IF c_tombstones
     THEN IF it = it_l THEN EndPos(c)
          ELSE IF c.m_storage[it].dead
               THEN IF ~c_primary_is_unique
                    THEN IF SkipDeadTo(c, it, it_l) = it_l THEN EndPos(c)
                         ELSE SkipDeadTo(c, it, it_l)
                    ELSE EndPos(c)
               ELSE ToIterator(c, it)
     ELSE IF it = it_l THEN EndPos(c) ELSE it

contains(c, k) == find(c, k) # EndPos(c)

equal_range(c, k) ==
  <<ToIterator(c, LowerBound(c.m_storage, k)), ToIterator(c, UpperBound(c.m_storage, k))>>

count(c, k) ==
  IF ~c_primary_is_unique
  THEN IF c_tombstones
       THEN Cardinality({j \in EqualRange(c.m_storage, k) : ~c.m_storage[j].dead})
       ELSE UpperBound(c.m_storage, k) - LowerBound(c.m_storage, k)
  ELSE IF find(c, k) = EndPos(c) THEN 0 ELSE 1

RECURSIVE Visit(_, _, _)
Visit(c, it, l) ==
  IF it = l \/ it >= EndPos(c) THEN {}
  ELSE {it} \cup Visit(c, ToIterator(c, it + 1), l)

(***************************************************************************)
(* erase(const_iterator), erase(key), EraseByHandle, erase<Tag>(skey).     *)
(***************************************************************************)
erase_iter_keep_secs(c, p) ==
  IF p >= EndPos(c) THEN [c |-> c, next |-> EndPos(c)]
  ELSE IF c_tombstones
       THEN LET c2 == DecrementLive([c EXCEPT !.m_storage[p].dead = TRUE])
            IN [c |-> c2, next |-> SkipDead(c2, p + 1)]
       ELSE [c |-> DecrementLive(PrimErase(c, p)), next |-> p]

erase_iter_next_raw(c, p) ==
  IF p >= EndPos(c) THEN [c |-> c, next |-> EndPos(c)]
  ELSE LET h == c.m_storage[p].addr
           c1 == DropSecs(c, h, 0)
       IN IF c_tombstones
          THEN [c |-> DecrementLive([c1 EXCEPT !.m_storage[p].dead = TRUE]), next |-> p + 1]
          ELSE [c |-> DecrementLive(PrimErase(c1, p)), next |-> p]

erase_iter(c, p) ==
  IF p >= EndPos(c) THEN [c |-> c, next |-> EndPos(c)]
  ELSE LET h == c.m_storage[p].addr
           c1 == DropSecs(c, h, 0)
       IN IF c_tombstones
          THEN LET c2 == DecrementLive([c1 EXCEPT !.m_storage[p].dead = TRUE])
               IN [c |-> c2, next |-> SkipDead(c2, p + 1)]
          ELSE [c |-> DecrementLive(PrimErase(c1, p)), next |-> p]

erase_key_first(c, k) ==
  IF EqualRange(c.m_storage, k) = {} THEN [c |-> c, removed |-> 0]
  ELSE [c |-> erase_iter(c, LowerBound(c.m_storage, k)).c, removed |-> 1]

RECURSIVE EraseKeyLoop_to_end(_, _, _, _)
EraseKeyLoop_to_end(c, it, it_l, removed) ==
  LET r == erase_iter(c, it)
  IN IF c_primary_is_unique \/ r.next = EndPos(r.c)
     THEN [c |-> r.c, removed |-> removed + 1]
     ELSE EraseKeyLoop_to_end(r.c, r.next, it_l, removed + 1)

RECURSIVE EraseKeyLoop(_, _, _, _)
EraseKeyLoop(c, it, it_l, removed) ==
  LET r == erase_iter(c, it)
      l2 == IF c_tombstones THEN it_l ELSE it_l - 1
  IN IF c_primary_is_unique \/ r.next = l2
     THEN [c |-> r.c, removed |-> removed + 1]
     ELSE EraseKeyLoop(r.c, r.next, l2, removed + 1)

erase_key(c, k) ==
  LET it == ToIterator(c, LowerBound(c.m_storage, k))
      it_l == ToIterator(c, UpperBound(c.m_storage, k))
  IN IF it = it_l THEN [c |-> c, removed |-> 0]
     ELSE EraseKeyLoop(c, it, it_l, 0)

EraseByHandle(c, h, ignore) ==
  IF h = NullH THEN c
  ELSE LET c1 == DropSecs(c, h, ignore)
       IN IF c_tombstones
          THEN DecrementLive([c1 EXCEPT !.m_storage[IdxOf(c1, h)].dead = TRUE])
          ELSE DecrementLive(PrimErase(c1, IdxOf(c1, h)))

RECURSIVE EraseSecLoop(_, _, _, _, _)
EraseSecLoop(c, i, sk, vp, removed) ==
  LET h == ToHandle(c, c.m_second[i][vp].second)
      c1 == EraseByHandle(c, h, i)
      c2 == [c1 EXCEPT !.m_second[i] = RemoveAt(@, vp)]
  IN IF is_unique_v(i) \/ vp > Len(c2.m_second[i]) \/ c2.m_second[i][vp].first # sk
     THEN [c |-> c2, removed |-> removed + 1]
     ELSE EraseSecLoop(c2, i, sk, vp, removed + 1)

erase_sec(c, i, sk) ==
  IF EqualRange(c.m_second[i], sk) = {} THEN [c |-> c, removed |-> 0]
  ELSE EraseSecLoop(c, i, sk, LowerBound(c.m_second[i], sk), 0)

(***************************************************************************)
(* UpdateCore / Replace.  nv is the payload the mutation leaves; mthrow    *)
(* says the mutation throws (after leaving nv); thr is the secondary whose *)
(* insertion throws in the re-adding AddSecs (0: none).                    *)
(***************************************************************************)
restore_payload_only(c, j, old, old_flag) == [c EXCEPT !.m_storage[j].m_value = old]

restore_old(c, j, old, old_flag) ==
  LET c1 == [c EXCEPT !.m_storage[j].m_value = old,
                      !.m_storage[j].dead = old_flag]
  IN IF old_flag THEN c1 ELSE AddSecs(c1, c1.m_storage[j].addr, 0).c

UpdateCore(c, h, nv, mthrow, thr) ==
  IF h = NullH THEN Ret(c, "null", FALSE, End, 0)
  ELSE
    LET j == IdxOf(c, h)
        old == c.m_storage[j].m_value
        old_flag == c_tombstones /\ c.m_storage[j].dead
        c1 == [c EXCEPT !.m_storage[j].dead = FALSE]
        c2 == IF old_flag THEN c1 ELSE DropSecs(c1, h, 0)
        c3 == [c2 EXCEPT !.m_storage[j].m_value = nv]
        r == AddSecs(c3, h, thr)
    IN IF mthrow THEN Ret(restore_old(c3, j, old, old_flag), "mut_throw", FALSE, j, 0)
       ELSE CASE r.res = "fail" ->
                   Ret(restore_old(r.c, j, old, old_flag), "sec_reject", FALSE, j, r.at)
              [] r.res = "throw" -> Ret(r.c, "sec_throw", FALSE, j, r.at)
              [] OTHER ->
                   IF old_flag THEN Ret(IncrementLive(r.c), "revived", TRUE, j, 0)
                   ELSE Ret(r.c, "updated", TRUE, j, 0)

ReplaceNoShortcut(c, h, v, mthrow, thr) == UpdateCore(c, h, v, mthrow, thr)

Replace(c, h, v, mthrow, thr) ==
  IF h = NullH THEN Ret(c, "null", FALSE, End, 0)
  ELSE LET j == IdxOf(c, h)
           is_live == ~(c_tombstones /\ c.m_storage[j].dead)
       IN IF is_live /\ c.m_storage[j].m_value = v
          THEN Ret(c, "same", TRUE, j, 0)
          ELSE UpdateCore(c, h, v, mthrow, thr)

(***************************************************************************)
(* insert_or_assign(k, v) on a unique primary: the result of UpdateCore is *)
(* not looked at, the call returns (it, false) whenever find(k) found a    *)
(* record.                                                                 *)
(***************************************************************************)
insert_or_assign_keep(c, k, v, a) ==
  IF find(c, k) # EndPos(c) THEN Ret(c, "assigned", FALSE, find(c, k), 0)
  ELSE emplace(c, k, v, 0, a)

insert_or_assign(c, k, v, a) ==
  LET it == find(c, k)
  IN IF it # EndPos(c)
     THEN LET r == UpdateCore(c, c.m_storage[it].addr, v, FALSE, 0)
          IN Ret(r.c, IF r.ok THEN "assigned" ELSE "assign_rejected", FALSE, it, r.at)
     ELSE emplace(c, k, v, 0, a)

(***************************************************************************)
(* C_EditProxy: operator[](k), the buffer edited to v, then commit().      *)
(***************************************************************************)
Revive(c, j, v, thr) ==
  LET h == c.m_storage[j].addr
      c1 == SetOwner([c EXCEPT !.m_storage[j].dead = FALSE,
                               !.m_storage[j].m_value = v], j)
      r == AddSecs(c1, h, thr)
  IN CASE r.res = "ok" -> Ret(IncrementLive(r.c), "revived", TRUE, j, 0)
       [] r.res = "fail" ->
            Ret([r.c EXCEPT !.m_storage[j].dead = TRUE], "sec_reject_revive", FALSE, j, r.at)
       [] OTHER -> Ret(r.c, "throw_revive", FALSE, j, r.at)

commit(c, k, v, thr, a) ==
  LET j == PrimFind(c, k)
  IN IF j = End THEN emplace(c, k, v, thr, a)
     ELSE IF c_tombstones /\ c.m_storage[j].dead
          THEN Revive(c, j, v, thr)
          ELSE Replace(c, c.m_storage[j].addr, v, FALSE, thr)

(***************************************************************************)
(* clear, swap, compact.                                                   *)
(***************************************************************************)
clear_keeps_transl(c) ==
  [c EXCEPT !.m_storage = <<>>, !.m_second = <<<<>>, <<>>>>, !.m_live = 0]

clear(c) ==
  [c EXCEPT !.m_storage = <<>>, !.m_second = <<<<>>, <<>>>>, !.transl = <<>>, !.m_live = 0]

RebindOwners_none(c) == c

RebindOwners(c) ==
  IF c_invalidates
  THEN [c EXCEPT !.m_storage =
          Tuple([j \in DOMAIN @ |-> [@[j] EXCEPT !.m_p_owner = c.self]], Len(@))]
  ELSE c

swap(x, o) ==
  <<RebindOwners([x EXCEPT !.m_storage = o.m_storage, !.buf = o.buf,
                           !.m_second = o.m_second, !.transl = o.transl,
                           !.m_live = o.m_live]),
    RebindOwners([o EXCEPT !.m_storage = x.m_storage, !.buf = x.buf,
                           !.m_second = x.m_second, !.transl = x.transl,
                           !.m_live = x.m_live])>>

LowestFree(c) == SetMin({a \in 1..(Len(c.m_storage) + 1) : ~HasPair(c, a)})

RECURSIVE CompactFill(_, _, _)
CompactFill(tmp, s, j) ==
  IF j > Len(s) THEN tmp
  ELSE CompactFill(IF s[j].dead THEN tmp
                   ELSE emplace(tmp, s[j].first, s[j].m_value, 0, LowestFree(tmp)).c,
                   s, j + 1)

compact(c) ==
  LET tmp == CompactFill([EmptyMI(TmpId) EXCEPT !.buf = c.buf], c.m_storage, 1)
  IN swap(c, tmp)[1]

(***************************************************************************)
(* Copy construction, move construction and move assignment.  A copy of an *)
(* invalidating container is rebuilt record by record with emplace; a      *)
(* non-invalidating one copies the primary and re-adds the secondaries.    *)
(* Addresses of the new container are taken up to renaming.                *)
(***************************************************************************)
RECURSIVE CopyAddSecs(_, _)
CopyAddSecs(c, j) ==
  IF j > Len(c.m_storage) THEN c
  ELSE CopyAddSecs(AddSecs(c, c.m_storage[j].addr, 0).c, j + 1)

copy_ctor(rhs, id) ==
  IF c_invalidates
  THEN CompactFill([EmptyMI(id) EXCEPT !.buf = rhs.buf], rhs.m_storage, 1)
  ELSE CopyAddSecs([rhs EXCEPT !.self = id, !.m_second = <<<<>>, <<>>>>], 1)

move_ctor(rhs, id) == RebindOwners([rhs EXCEPT !.self = id])

move_assign(x, rhs) ==
  RebindOwners([x EXCEPT !.m_storage = rhs.m_storage, !.buf = rhs.buf,
                         !.m_second = rhs.m_second, !.transl = rhs.transl,
                         !.m_live = rhs.m_live])

(***************************************************************************)
(* State machine.                                                          *)
(***************************************************************************)
NoVal == <<0, 0>>

Label(op, r, key) ==
  [op |-> op, res |-> r.res, ok |-> r.ok, it |-> r.it, at |-> r.at, key |-> key,
   val |-> NoVal]

NoCall ==
  [op |-> "idle", res |-> "none", ok |-> FALSE, it |-> End, at |-> 0, key |-> 0,
   val |-> NoVal]
Idle == last = NoCall
Fits(c) == c.m_live >= 0 - MaxUnder

Do(op, r, key) ==
  /\ mi' = r.c
  /\ last' = Label(op, r, key)
  /\ UNCHANGED <<cfg, other, proxy, procs>>

DoV(op, r, key, v) ==
  /\ mi' = r.c
  /\ last' = [Label(op, r, key) EXCEPT !.val = v]
  /\ UNCHANGED <<cfg, other, proxy, procs>>

FreeAddrs(c) ==
  IF cfg.reloc THEN {NullH}
  ELSE {a \in Addrs : ~HasPair(c, a)}

CanGrow(c) ==
  /\ Len(c.m_storage) < MaxRecs
  /\ Len(c.transl) < MaxTransl

NoProxy == [open |-> FALSE, m_h |-> NullH, key |-> 0, m_buf |-> NoVal, m_committed |-> FALSE]
NoProcs == <<>>

Init ==
  /\ cfg \in Configs
  /\ mi = EmptyMI(1)
  /\ last = NoCall
  /\ other = EmptyMI(2)
  /\ proxy = NoProxy
  /\ procs = NoProcs

Emplace ==
  /\ Idle
  /\ \E k \in Keys, v \in Payloads :
       \E a \in FreeAddrs(mi) :
         LET r == emplace(mi, k, v, 0, a)
         IN /\ CanGrow(mi) \/ (c_primary_is_unique /\ PrimFind(mi, k) # End)
            /\ DoV("emplace", r, k, v)

EmplaceThrow ==
  /\ Idle
  /\ \E k \in Keys, v \in Payloads, thr \in Secs :
       \E a \in FreeAddrs(mi) :
         LET r == emplace(mi, k, v, thr, a)
         IN /\ CanGrow(mi) \/ (c_primary_is_unique /\ PrimFind(mi, k) # End)
            /\ r.res \in {"throw", "throw_revive"}
            /\ DoV("emplace", r, k, v)

Positions(c) == DOMAIN c.m_storage
Live(c, j) == ~c.m_storage[j].dead
LiveSet(c) == {j \in DOMAIN c.m_storage : Live(c, j)}

EraseKey ==
  /\ Idle
  /\ \E k \in Keys :
       LET r == erase_key(mi, k)
       IN /\ Fits(r.c)
          /\ Do("erase_key", Ret(r.c, "removed", r.removed > 0, r.removed, 0), k)

EraseIter ==
  /\ Idle
  /\ \E p \in Positions(mi) \cup {EndPos(mi)} :
       LET r == erase_iter(mi, p)
       IN /\ Fits(r.c)
          /\ Do("erase_iter",
                Ret(r.c, IF p = EndPos(mi) THEN "end"
                         ELSE IF mi.m_storage[p].dead THEN "stale" ELSE "erased",
                    p # EndPos(mi), ItOut(r.c, r.next), 0),
                IF p = EndPos(mi) THEN 0 ELSE mi.m_storage[p].first)

EraseSec ==
  /\ Idle
  /\ \E i \in Secs, sk \in Vals :
       LET r == erase_sec(mi, i, sk)
       IN /\ Fits(r.c)
          /\ Do("erase_sec", Ret(r.c, "removed", r.removed > 0, r.removed, i), sk)

Find ==
  /\ Idle
  /\ \E k \in Keys :
       Do("find",
          Ret(mi, IF contains(mi, k) THEN "found" ELSE "absent", contains(mi, k),
              ItOut(mi, find(mi, k)), 0),
          k)

EqualRangeOp ==
  /\ Idle
  /\ \E k \in Keys :
       LET r == equal_range(mi, k)
       IN Do("equal_range",
             Ret(mi, "range", r[1] # r[2], ItOut(mi, r[1]), count(mi, k)),
             k)

Modify ==
  /\ Idle
  /\ \E p \in Positions(mi), nv \in Payloads :
       LET r == UpdateCore(mi, mi.m_storage[p].addr, nv, FALSE, 0)
       IN DoV("modify", r, mi.m_storage[p].first, nv)

ReplaceOp ==
  /\ Idle
  /\ \E p \in Positions(mi), v \in Payloads :
       LET r == Replace(mi, mi.m_storage[p].addr, v, FALSE, 0)
       IN DoV("replace", r, mi.m_storage[p].first, v)

ModifyMutThrow ==
  /\ Idle
  /\ \E p \in Positions(mi), nv \in Payloads :
       LET r == UpdateCore(mi, mi.m_storage[p].addr, nv, TRUE, 0)
       IN DoV("modify", r, mi.m_storage[p].first, nv)

ModifySecThrow ==
  /\ Idle
  /\ \E p \in Positions(mi), nv \in Payloads, thr \in Secs :
       LET r == UpdateCore(mi, mi.m_storage[p].addr, nv, FALSE, thr)
       IN /\ r.res = "sec_throw"
          /\ Fits(r.c)
          /\ DoV("modify", r, mi.m_storage[p].first, nv)

InsertOrAssign ==
  /\ Idle
  /\ c_primary_is_unique
  /\ \E k \in Keys, v \in Payloads :
       \E a \in FreeAddrs(mi) :
         LET r == insert_or_assign(mi, k, v, a)
         IN /\ CanGrow(mi) \/ PrimFind(mi, k) # End
            /\ DoV("insert_or_assign", r, k, v)

ProxyCommit ==
  /\ Idle
  /\ c_primary_is_unique
  /\ \E k \in Keys, v \in Payloads :
       \E a \in FreeAddrs(mi) :
         LET r == commit(mi, k, v, 0, a)
         IN /\ CanGrow(mi) \/ PrimFind(mi, k) # End
            /\ DoV("commit", r, k, v)

ProxyCommitThrow ==
  /\ Idle
  /\ c_primary_is_unique
  /\ \E k \in Keys, v \in Payloads, thr \in Secs :
       \E a \in FreeAddrs(mi) :
         LET r == commit(mi, k, v, thr, a)
         IN /\ CanGrow(mi) \/ PrimFind(mi, k) # End
            /\ r.res \in {"throw", "throw_revive", "sec_throw"}
            /\ Fits(r.c)
            /\ DoV("commit", r, k, v)

ProxyAbort ==
  /\ Idle
  /\ c_primary_is_unique
  /\ \E k \in Keys :
       Do("abort", Ret(mi, "aborted", FALSE, End, 0), k)

Clear ==
  /\ Idle
  /\ Do("clear", Ret(clear(mi), "cleared", TRUE, End, 0), 0)

Compact ==
  /\ Idle
  /\ c_tombstones \/ c_needs_translation_array
  /\ Do("compact", Ret(compact(mi), "compacted", TRUE, End, 0), 0)

CopyOp ==
  /\ Idle
  /\ Do("copy", Ret(move_assign(mi, copy_ctor(mi, TmpId)), "copied", TRUE, End, 0), 0)

MoveOp ==
  /\ Idle
  /\ Do("move", Ret(move_assign(mi, move_ctor(mi, TmpId)), "moved", TRUE, End, 0), 0)

SwapOp ==
  /\ Idle
  /\ Do("swap", Ret(swap(mi, copy_ctor(mi, TmpId))[1], "swapped", TRUE, End, 0), 0)

Return ==
  /\ ~Idle
  /\ last' = NoCall
  /\ UNCHANGED <<cfg, mi, other, proxy, procs>>

NextQuiet ==
  \/ Emplace
  \/ EraseKey
  \/ EraseIter
  \/ EraseSec
  \/ Find
  \/ EqualRangeOp
  \/ Modify
  \/ ReplaceOp
  \/ InsertOrAssign
  \/ ProxyCommit
  \/ ProxyAbort
  \/ Clear
  \/ Compact
  \/ CopyOp
  \/ MoveOp
  \/ SwapOp
  \/ Return

NextThrow ==
  \/ EmplaceThrow
  \/ ModifyMutThrow
  \/ ModifySecThrow
  \/ ProxyCommitThrow

Next == NextQuiet \/ NextThrow

Spec == Init /\ [][Next]_vars

SpecNoThrow == Init /\ [][NextQuiet]_vars

(***************************************************************************)
(* Lookup and erase on primaries that hold up to MaxEqual records, with    *)
(* and without tombstones, the multi-key ones with secondaries that        *)
(* reject nothing.                                                         *)
(***************************************************************************)
ConfigsLookup ==
  { Config("NoInv", FALSE, FALSE, FALSE, FALSE, FALSE),
    Config("UpdatePointer", TRUE, FALSE, FALSE, FALSE, FALSE),
    Config("UpdatePointer", TRUE, FALSE, TRUE, FALSE, TRUE) }

InitLookup ==
  /\ cfg \in ConfigsLookup
  /\ mi = EmptyMI(1)
  /\ last = NoCall
  /\ other = EmptyMI(2)
  /\ proxy = NoProxy
  /\ procs = NoProcs

EmplaceLookup ==
  /\ Idle
  /\ \E k \in Keys, v \in Payloads :
       \E a \in FreeAddrs(mi) :
         LET r == emplace(mi, k, v, 0, a)
         IN /\ Len(mi.m_storage) < MaxEqual \/ (c_primary_is_unique /\ PrimFind(mi, k) # End)
            /\ DoV("emplace", r, k, v)

RECURSIVE EraseAll(_, _, _)
EraseAll(c, it, n) ==
  IF it >= EndPos(c) THEN [c |-> c, n |-> n]
  ELSE EraseAll(erase_iter(c, it).c, erase_iter(c, it).next, n + 1)

EraseLoop ==
  /\ Idle
  /\ LET r == EraseAll(mi, ToIterator(mi, 1), 0)
     IN /\ Fits(r.c)
        /\ Do("erase_loop", Ret(r.c, "erased_all", r.n > 0, End, r.n), 0)

NextLookup ==
  \/ EmplaceLookup
  \/ EraseKey
  \/ EraseIter
  \/ EraseSec
  \/ EraseLoop
  \/ Find
  \/ EqualRangeOp
  \/ Return

SpecLookup == InitLookup /\ [][NextLookup]_vars

(***************************************************************************)
(* Two containers A (mi) and B (other) of one instantiation: copy          *)
(* construction and assignment, move construction and assignment, swap,    *)
(* self-assignment, and calls on either.  Node addresses come from one     *)
(* heap, so a node of B never has the address of a node of A (the          *)
(* allocator gives the node of key k of a map the address SlotAddr(map,    *)
(* k)); a relocating primary keeps its records in the buffer the container *)
(* owns.  A moved-from map, tuple of maps or vector is empty.  The move of a        *)
(* wrapper calls OnRelocate on the owner the wrapper names, which is the   *)
(* peer container when the back-pointer was left pointing at it.           *)
(***************************************************************************)
NewAddr(c, k) == IF cfg.reloc THEN NullH ELSE SlotAddr(c.buf, k)

FreshNodes(s, b) ==
  Tuple([j \in DOMAIN s |-> [s[j] EXCEPT !.addr = SlotAddr(b, s[j].first)]], Len(s))

RECURSIVE PairFill(_, _, _)
PairFill(dst, s, j) ==
  IF j > Len(s) THEN dst
  ELSE PairFill(IF s[j].dead THEN dst
                ELSE emplace(dst, s[j].first, s[j].m_value, 0, NewAddr(dst, s[j].first)).c,
                s, j + 1)

copy_construct(rhs, id, b) ==
  IF c_invalidates
  THEN PairFill([EmptyMI(id) EXCEPT !.buf = b], rhs.m_storage, 1)
  ELSE CopyAddSecs([rhs EXCEPT !.self = id, !.buf = b,
                               !.m_storage = FreshNodes(rhs.m_storage, b),
                               !.m_second = <<<<>>, <<>>>>], 1)

CopyAssignCore(x, rhs) ==
  IF c_invalidates
  THEN PairFill(clear(x), rhs.m_storage, 1)
  ELSE CopyAddSecs([x EXCEPT !.m_live = rhs.m_live, !.transl = rhs.transl,
                             !.m_storage = FreshNodes(rhs.m_storage, x.buf),
                             !.m_second = <<<<>>, <<>>>>], 1)

copy_assign(x, rhs) == IF x.self = rhs.self THEN x ELSE CopyAssignCore(x, rhs)

moved_from_keeps_live(rhs, b) == [clear(rhs) EXCEPT !.buf = b, !.m_live = rhs.m_live]

moved_from(rhs, b) == [clear(rhs) EXCEPT !.buf = b]

move_construct(rhs, id) == <<move_ctor(rhs, id), moved_from(rhs, id)>>

move_assign_to(x, rhs) ==
  IF x.self = rhs.self THEN <<x, rhs>>
  ELSE <<move_assign(x, rhs), moved_from(rhs, x.buf)>>

RECURSIVE ForeignUp(_, _, _, _, _)
ForeignUp(peer, s, b, j, p) ==
  IF j < p THEN peer
  ELSE ForeignUp(OnRelocate(peer, s[j], SlotAddr(b, j), SlotAddr(b, j + 1)), s, b, j - 1, p)

RECURSIVE ForeignDown(_, _, _, _)
ForeignDown(peer, s, b, j) ==
  IF j > Len(s) THEN peer
  ELSE ForeignDown(OnRelocate(peer, s[j], SlotAddr(b, j), SlotAddr(b, j - 1)), s, b, j + 1)

EmplaceForeign(c, peer, k, r) ==
  IF ~cfg.reloc \/ r.res \in {"exists", "revived", "sec_reject_revive", "throw_revive"}
  THEN peer
  ELSE LET p == UpperBound(c.m_storage, k)
           up == ForeignUp(peer, c.m_storage, c.buf, Len(c.m_storage), p)
       IN IF r.ok THEN up
          ELSE ForeignDown(up, InsertAt(c.m_storage, p, T_PayloadWrap(k, NoVal)), c.buf, p + 1)

EraseForeign(c, peer, p) ==
  IF cfg.reloc /\ p < EndPos(c) THEN ForeignDown(peer, c.m_storage, c.buf, p + 1) ELSE peer

DoPair(op, res, a2, b2) ==
  /\ mi' = a2
  /\ other' = b2
  /\ last' = [NoCall EXCEPT !.op = op, !.res = res]
  /\ UNCHANGED <<cfg, proxy, procs>>

PairPayloads == {<<1, 1>>, <<2, 2>>}

ConfigsPair ==
  { Config("NoInv", FALSE, FALSE, TRUE, FALSE, TRUE),
    Config("UpdatePointer", FALSE, TRUE, TRUE, FALSE, TRUE),
    Config("UpdatePointer", TRUE, FALSE, TRUE, FALSE, TRUE),
    Config("TranslationArray", FALSE, TRUE, TRUE, TRUE, FALSE),
    Config("KeyLookup", FALSE, FALSE, TRUE, FALSE, TRUE) }

InitPair ==
  /\ cfg \in ConfigsPair
  /\ mi = EmptyMI(1)
  /\ last = NoCall
  /\ other = EmptyMI(2)
  /\ proxy = NoProxy
  /\ procs = NoProcs

EmplaceA ==
  /\ Idle
  /\ \E k \in Keys, v \in PairPayloads :
       LET r == emplace(mi, k, v, 0, NewAddr(mi, k))
       IN /\ CanGrow(mi) \/ PrimFind(mi, k) # End
          /\ DoPair("a_emplace", r.res, r.c, EmplaceForeign(mi, other, k, r))

EraseA ==
  /\ Idle
  /\ \E p \in LiveSet(mi) :
       /\ DoPair("a_erase", "erased", erase_iter(mi, p).c, EraseForeign(mi, other, p))

EmplaceB ==
  /\ Idle
  /\ \E k \in Keys, v \in PairPayloads :
       LET r == emplace(other, k, v, 0, NewAddr(other, k))
       IN /\ CanGrow(other) \/ PrimFind(other, k) # End
          /\ DoPair("b_emplace", r.res, EmplaceForeign(other, mi, k, r), r.c)

EraseB ==
  /\ Idle
  /\ \E p \in LiveSet(other) :
       /\ DoPair("b_erase", "erased", EraseForeign(other, mi, p), erase_iter(other, p).c)

ModifyB ==
  /\ Idle
  /\ \E p \in LiveSet(other), nv \in PairPayloads :
       LET r == UpdateCore(other, other.m_storage[p].addr, nv, FALSE, 0)
       IN DoPair("b_modify", r.res, mi, r.c)

ReplaceB ==
  /\ Idle
  /\ \E p \in LiveSet(other), v \in PairPayloads :
       LET r == Replace(other, other.m_storage[p].addr, v, FALSE, 0)
       IN DoPair("b_replace", r.res, mi, r.c)

ModifySecThrowB ==
  /\ Idle
  /\ \E p \in LiveSet(other), nv \in PairPayloads, thr \in Secs :
       LET r == UpdateCore(other, other.m_storage[p].addr, nv, FALSE, thr)
       IN /\ r.res = "sec_throw"
          /\ Fits(r.c)
          /\ DoPair("b_modify", r.res, mi, r.c)

CopyConstruct ==
  /\ Idle
  /\ DoPair("copy_ctor", "copied", mi, copy_construct(mi, other.self, other.buf))

CopyAssign ==
  /\ Idle
  /\ DoPair("copy_assign", "copied", mi, copy_assign(other, mi))

SelfCopyAssign ==
  /\ Idle
  /\ DoPair("self_copy", "copied", copy_assign(mi, mi), other)

MoveConstruct ==
  /\ Idle
  /\ DoPair("move_ctor", "moved",
            [move_construct(mi, other.self)[2] EXCEPT !.self = mi.self, !.buf = other.buf],
            move_construct(mi, other.self)[1])

MoveAssign ==
  /\ Idle
  /\ DoPair("move_assign", "moved", move_assign_to(other, mi)[2], move_assign_to(other, mi)[1])

SelfMoveAssign ==
  /\ Idle
  /\ DoPair("self_move", "moved", move_assign_to(mi, mi)[1], other)

SwapPair ==
  /\ Idle
  /\ DoPair("swap", "swapped", swap(mi, other)[1], swap(mi, other)[2])

NextPair ==
  \/ EmplaceA
  \/ EraseA
  \/ EmplaceB
  \/ EraseB
  \/ ModifyB
  \/ ReplaceB
  \/ ModifySecThrowB
  \/ CopyConstruct
  \/ CopyAssign
  \/ SelfCopyAssign
  \/ MoveConstruct
  \/ MoveAssign
  \/ SelfMoveAssign
  \/ SwapPair
  \/ Return

SpecPair == InitPair /\ [][NextPair]_vars

(***************************************************************************)
(* The life of a C_EditProxy: operator[](k) builds it on the handle of the *)
(* record of k, live or dead, with the payload of the record in the        *)
(* buffer, or on the key alone with a default payload; the caller writes   *)
(* the buffer, calls commit() or abort(), and the destructor commits when  *)
(* neither was called, turning an exception into EditOk() = false.  The    *)
(* proxy is a scoped object: no other call on the container happens while  *)
(* it is alive.                                                            *)
(***************************************************************************)
subscript(c, k) ==
  LET it == find_raw(c, k)
  IN IF it # EndPos(c)
     THEN [open |-> TRUE, m_h |-> c.m_storage[it].addr, key |-> k,
           m_buf |-> c.m_storage[it].m_value, m_committed |-> FALSE]
     ELSE [open |-> TRUE, m_h |-> NullH, key |-> k, m_buf |-> NoVal, m_committed |-> FALSE]

proxy_commit(c, px, thr, a) ==
  IF px.m_h = NullH THEN emplace(c, px.key, px.m_buf, thr, a)
  ELSE IF c_tombstones /\ Pair(c, px.m_h).dead
       THEN Revive(c, IdxOf(c, px.m_h), px.m_buf, thr)
       ELSE Replace(c, px.m_h, px.m_buf, FALSE, thr)

abort_keeps(px) == px

abort(px) == [px EXCEPT !.m_committed = TRUE]

Thrown(r) == r.res \in {"throw", "throw_revive", "sec_throw"}

DoProxy(op, r, px) ==
  /\ mi' = r.c
  /\ proxy' = px
  /\ last' = [Label(op, r, proxy.key) EXCEPT !.val = proxy.m_buf]
  /\ UNCHANGED <<cfg, other, procs>>

ConfigsProxy == {c \in Configs : c.prim_unique}

InitProxy ==
  /\ cfg \in ConfigsProxy
  /\ mi = EmptyMI(1)
  /\ last = NoCall
  /\ other = EmptyMI(2)
  /\ proxy = NoProxy
  /\ procs = NoProcs

ProxyOpen ==
  /\ Idle
  /\ ~proxy.open
  /\ \E k \in Keys :
       /\ CanGrow(mi) \/ PrimFind(mi, k) # End
       /\ DoProxy("subscript", Ret(mi, "proxy", FALSE, ItOut(mi, find_raw(mi, k)), 0),
                  subscript(mi, k))

ProxyEdit ==
  /\ last.op \in {"idle", "abort"}
  /\ proxy.open
  /\ \E v \in PairPayloads :
       /\ v # proxy.m_buf
       /\ proxy' = [proxy EXCEPT !.m_buf = v]
  /\ UNCHANGED <<cfg, mi, last, other, procs>>

ProxyCommitCall ==
  /\ Idle
  /\ proxy.open
  /\ ~proxy.m_committed
  /\ \E thr \in {0} \cup Secs :
       \E a \in FreeAddrs(mi) :
         LET r == proxy_commit(mi, proxy, thr, a)
         IN /\ thr # 0 => Thrown(r)
            /\ Fits(r.c)
            /\ DoProxy("commit", r, [proxy EXCEPT !.m_committed = TRUE])

ProxyAbortCall ==
  /\ Idle
  /\ proxy.open
  /\ ~proxy.m_committed
  /\ DoProxy("abort", Ret(mi, "aborted", FALSE, End, 0), abort(proxy))

ProxyDestroy ==
  /\ last.op \in {"idle", "abort"}
  /\ proxy.open
  /\ IF proxy.m_committed
     THEN DoProxy("destroy",
                  Ret(mi, IF last.op = "abort" THEN "aborted" ELSE "none", FALSE, End, 0),
                  NoProxy)
     ELSE \E thr \in {0} \cup Secs :
            \E a \in FreeAddrs(mi) :
              LET r == proxy_commit(mi, proxy, thr, a)
              IN /\ thr # 0 => Thrown(r)
                 /\ Fits(r.c)
                 /\ DoProxy("destroy", [r EXCEPT !.ok = r.ok /\ ~Thrown(r)], NoProxy)

EmplaceScoped ==
  /\ ~proxy.open
  /\ Idle
  /\ \E k \in Keys, v \in PairPayloads :
       \E a \in FreeAddrs(mi) :
         LET r == emplace(mi, k, v, 0, a)
         IN /\ CanGrow(mi) \/ PrimFind(mi, k) # End
            /\ DoV("emplace", r, k, v)

EraseScoped ==
  /\ ~proxy.open
  /\ EraseKey

ModifyThrowScoped ==
  /\ ~proxy.open
  /\ Idle
  /\ \E p \in LiveSet(mi), nv \in PairPayloads, thr \in Secs :
       LET r == UpdateCore(mi, mi.m_storage[p].addr, nv, FALSE, thr)
       IN /\ r.res = "sec_throw"
          /\ DoV("modify", r, mi.m_storage[p].first, nv)

NextProxy ==
  \/ ProxyOpen
  \/ ProxyEdit
  \/ ProxyCommitCall
  \/ ProxyAbortCall
  \/ ProxyDestroy
  \/ EmplaceScoped
  \/ EraseScoped
  \/ ModifyThrowScoped
  \/ Return

SpecProxy == InitProxy /\ [][NextProxy]_vars

(***************************************************************************)
(* The concurrent subset: threads call emplace on one container whose maps *)
(* are concurrent and node-stable (NoInv, KeyLookup, UpdatePointer over a  *)
(* primary that never relocates); the live counter is atomic.  Every       *)
(* operation on a map, every read or write of the dead flag and of the     *)
(* payload, and the increment of the counter is one step; a thread keeps   *)
(* the handle h of its record, the secondary i it has reached and, while   *)
(* Rollback runs, the secondary j it undoes.  The container is first       *)
(* filled and erased from by one thread (erase is outside the subset),     *)
(* then every thread calls emplace once.                                   *)
(***************************************************************************)
MaxThreads == 2
Threads == 1..MaxThreads

IdleProc ==
  [pc |-> "idle", key |-> 0, val |-> NoVal, h |-> NullH, i |-> 0, j |-> 0,
   revive |-> FALSE, ok |-> FALSE]

Done(p, ok) == [p EXCEPT !.pc = "done", !.ok = ok, !.i = 0, !.j = 0]

AfterUndo(p) == IF p.revive THEN "rv_dead" ELSE "erase_prim"

emplace_step(c, p) ==
  CASE p.pc = "start" ->
         LET it0 == PrimFind(c, p.key)
         IN IF c_tombstones /\ it0 # End
            THEN IF c.m_storage[it0].dead
                 THEN [c |-> c, p |-> [p EXCEPT !.pc = "rv_flag", !.h = c.m_storage[it0].addr,
                                                !.revive = TRUE]]
                 ELSE [c |-> c, p |-> Done(p, FALSE)]
            ELSE [c |-> c, p |-> [p EXCEPT !.pc = "try"]]
    [] p.pc = "try" ->
         IF PrimFind(c, p.key) # End
         THEN [c |-> c, p |-> Done(p, FALSE)]
         ELSE LET at == UpperBound(c.m_storage, p.key)
                  c1 == SetOwner(PrimInsert(c, at, T_PayloadWrap(p.key, p.val),
                                            SlotAddr(c.buf, p.key)), at)
              IN [c |-> OnEmplaceSuccess(c1, c1.m_storage[at].addr),
                  p |-> [p EXCEPT !.pc = "add", !.h = c1.m_storage[at].addr, !.i = 1,
                                  !.revive = FALSE]]
    [] p.pc = "rv_flag" ->
         [c |-> [c EXCEPT !.m_storage[IdxOf(c, p.h)].dead = FALSE],
          p |-> [p EXCEPT !.pc = "rv_payload"]]
    [] p.pc = "rv_payload" ->
         [c |-> SetOwner([c EXCEPT !.m_storage[IdxOf(c, p.h)].m_value = p.val], IdxOf(c, p.h)),
          p |-> [p EXCEPT !.pc = "add", !.i = 1]]
    [] p.pc = "add" ->
         IF is_unique_v(p.i) /\ SecHasKey(c, p.i, p.h)
         THEN [c |-> c,
               p |-> IF p.i = 1 THEN [p EXCEPT !.pc = AfterUndo(p)]
                     ELSE [p EXCEPT !.pc = "undo", !.j = 1]]
         ELSE [c |-> SecInsert(c, p.i, p.h),
               p |-> IF p.i + 1 \in Secs THEN [p EXCEPT !.i = p.i + 1]
                     ELSE [p EXCEPT !.pc = "inc"]]
    [] p.pc = "undo" ->
         [c |-> DropOne(c, p.j, p.h),
          p |-> IF p.j + 1 < p.i THEN [p EXCEPT !.j = p.j + 1]
                ELSE [p EXCEPT !.pc = AfterUndo(p)]]
    [] p.pc = "erase_prim" ->
         [c |-> PrimErase(OnEmplaceFail(c), IdxOf(c, p.h)), p |-> Done(p, FALSE)]
    [] p.pc = "rv_dead" ->
         [c |-> [c EXCEPT !.m_storage[IdxOf(c, p.h)].dead = TRUE], p |-> Done(p, FALSE)]
    [] OTHER ->
         [c |-> IncrementLive(c), p |-> Done(p, TRUE)]

Quiescent == \A t \in Threads : procs[t].pc \in {"idle", "done"}
NotStarted == \A t \in Threads : procs[t].pc = "idle"

ConfigsConc ==
  { Config("NoInv", FALSE, FALSE, TRUE, FALSE, TRUE),
    Config("KeyLookup", FALSE, FALSE, TRUE, FALSE, TRUE),
    Config("UpdatePointer", TRUE, FALSE, TRUE, FALSE, TRUE) }

InitConc ==
  /\ cfg \in ConfigsConc
  /\ mi = EmptyMI(1)
  /\ last = NoCall
  /\ other = EmptyMI(2)
  /\ proxy = NoProxy
  /\ procs = [t \in Threads |-> IdleProc]

EmplaceCall ==
  /\ \E t \in Threads, k \in Keys, v \in PairPayloads :
       /\ procs[t].pc = "idle"
       /\ procs' = [procs EXCEPT ![t] = [IdleProc EXCEPT !.pc = "start", !.key = k, !.val = v]]
  /\ UNCHANGED <<cfg, mi, last, other, proxy>>

EmplaceStep ==
  /\ \E t \in Threads :
       /\ procs[t].pc \notin {"idle", "done"}
       /\ mi' = emplace_step(mi, procs[t]).c
       /\ procs' = [procs EXCEPT ![t] = emplace_step(mi, procs[t]).p]
  /\ UNCHANGED <<cfg, last, other, proxy>>

EmplaceAlone ==
  /\ NotStarted
  /\ \E k \in Keys, v \in PairPayloads :
       mi' = emplace(mi, k, v, 0, SlotAddr(mi.buf, k)).c
  /\ UNCHANGED <<cfg, last, other, proxy, procs>>

EraseAlone ==
  /\ NotStarted
  /\ \E k \in Keys :
       /\ contains(mi, k)
       /\ mi' = erase_key(mi, k).c
  /\ UNCHANGED <<cfg, last, other, proxy, procs>>

NextConc ==
  \/ EmplaceCall
  \/ EmplaceStep
  \/ EmplaceAlone
  \/ EraseAlone

SpecConc == InitConc /\ [][NextConc]_vars

(***************************************************************************)
(* Observations used by the properties.                                    *)
(***************************************************************************)
Resolves(c, e, j) == ToHandle(c, e.second) = c.m_storage[j].addr

EntriesOf(c, i, j) ==
  {e \in DOMAIN c.m_second[i] :
     /\ c.m_second[i][e].first = Project(i, c.m_storage[j].first, c.m_storage[j].m_value)
     /\ Resolves(c, c.m_second[i][e], j)}

RefersTo(c, i, j) == {e \in DOMAIN c.m_second[i] : Resolves(c, c.m_second[i][e], j)}

Count(m, e) == Cardinality({j \in DOMAIN m : m[j] = e})
SameEntries(m1, m2) ==
  /\ Len(m1) = Len(m2)
  /\ \A j \in DOMAIN m1 : Count(m1, m1[j]) = Count(m2, m1[j])

SameState(c, d) ==
  /\ c.m_storage = d.m_storage
  /\ c.transl = d.transl
  /\ size(c) = size(d)
  /\ \A i \in Secs : SameEntries(c.m_second[i], d.m_second[i])

RECURSIVE IterCount(_, _)
IterCount(c, p) == IF p >= EndPos(c) THEN 0 ELSE 1 + IterCount(c, ToIterator(c, p + 1))

(***************************************************************************)
(* C1: when no exception is thrown, every live record has, in every        *)
(* secondary index, exactly one entry whose sub-key is the projection of   *)
(* the record and whose stored reference resolves to the record.           *)
(***************************************************************************)
C1_SecondaryCoherence ==
  \A j \in LiveSet(mi) : \A i \in Secs : Cardinality(EntriesOf(mi, i, j)) = 1

C1_Witness ==
  /\ last.op = "modify" /\ last.res = "updated"
  /\ Cardinality(LiveSet(mi)) = 2

(***************************************************************************)
(* C2: every secondary entry refers to a record that is present and live,  *)
(* and every secondary index holds exactly size() entries.                 *)
(***************************************************************************)
C2_NoDeadReferences ==
  \A i \in Secs :
    /\ \A e \in DOMAIN mi.m_second[i] :
         \E j \in LiveSet(mi) : Resolves(mi, mi.m_second[i][e], j)
    /\ Len(mi.m_second[i]) = size(mi)

(***************************************************************************)
(* C3: on a unique primary no two live records have the same key, and in   *)
(* a unique secondary no two live records have the same projection.        *)
(***************************************************************************)
C3_Uniqueness ==
  \A j1, j2 \in LiveSet(mi) :
    j1 # j2 =>
      /\ c_primary_is_unique => mi.m_storage[j1].first # mi.m_storage[j2].first
      /\ \A i \in Secs :
           is_unique_v(i) =>
             Project(i, mi.m_storage[j1].first, mi.m_storage[j1].m_value)
               # Project(i, mi.m_storage[j2].first, mi.m_storage[j2].m_value)

(***************************************************************************)
(* C4: size() is the number of records that are not dead, which is the     *)
(* number of records an iteration from begin() to end() yields; without    *)
(* tombstones it is the size of the primary map.                           *)
(***************************************************************************)
C4_LiveCount ==
  /\ size(mi) = Cardinality(LiveSet(mi))
  /\ size(mi) = IterCount(mi, ToIterator(mi, 1))
  /\ ~c_tombstones => size(mi) = Len(mi.m_storage)

(***************************************************************************)
(* C5: an emplace of a new key that a unique secondary rejects returns     *)
(* (end, false) and leaves the container as it was before the call.        *)
(***************************************************************************)
C5_EmplaceRejected ==
  [][(last'.op = "emplace" /\ last'.res = "sec_reject")
       => (mi' = mi /\ last'.it = End /\ ~last'.ok)]_vars

C5_Witness ==
  /\ last.op = "emplace" /\ last.res = "sec_reject" /\ last.at = 2
  /\ Len(mi.m_storage) >= 1

(***************************************************************************)
(* C6: a modify or replace of a live record that collides in a unique      *)
(* secondary returns false, and afterwards the payload, the entries of     *)
(* every secondary and size() are those before the call.                   *)
(***************************************************************************)
C6_UpdateRejected ==
  [][(/\ last'.op \in {"modify", "replace"}
      /\ last'.res = "sec_reject"
      /\ Live(mi, last'.it))
       => (/\ ~last'.ok
           /\ mi'.m_storage[last'.it].m_value = mi.m_storage[last'.it].m_value
           /\ \A i \in Secs : SameEntries(mi'.m_second[i], mi.m_second[i])
           /\ size(mi') = size(mi))]_vars

(***************************************************************************)
(* C7: when the mutation of modify or replace throws, afterwards the       *)
(* payload and the liveness of the record are those before the call, its   *)
(* secondary entries are those of the pre-call payload (one in every       *)
(* secondary if it was live, none if it was dead), and size() is unchanged.*)
(***************************************************************************)
C7_MutationThrows ==
  [][(last'.res = "mut_throw")
       => (/\ mi'.m_storage[last'.it].m_value = mi.m_storage[last'.it].m_value
           /\ mi'.m_storage[last'.it].dead = mi.m_storage[last'.it].dead
           /\ size(mi') = size(mi)
           /\ \A i \in Secs :
                /\ RefersTo(mi', i, last'.it) = EntriesOf(mi', i, last'.it)
                /\ Cardinality(EntriesOf(mi', i, last'.it))
                     = IF Live(mi, last'.it) THEN 1 ELSE 0)]_vars

(***************************************************************************)
(* C8: when a secondary insertion throws during the emplace of a new key,  *)
(* the container is left as it was before the call.                        *)
(***************************************************************************)
C8_EmplaceThrows ==
  [][(last'.res = "throw") => mi' = mi]_vars

C8_Witness ==
  /\ last.op = "emplace" /\ last.res = "throw" /\ last.at = 2
  /\ Len(mi.m_storage) >= 1

(***************************************************************************)
(* C9: when a secondary insertion throws while modify or replace re-adds   *)
(* the secondaries of the record, the container is left as it was before   *)
(* the call.                                                               *)
(***************************************************************************)
C9_ReaddThrows ==
  [][(last'.res = "sec_throw") => SameState(mi', mi)]_vars

(***************************************************************************)
(* C10: on a unique primary, emplace of the key of a live record returns   *)
(* (iterator to that record, false) and changes nothing.                   *)
(***************************************************************************)
C10_EmplaceExisting ==
  [][(last'.op = "emplace" /\ last'.res = "exists")
       => (/\ mi' = mi
           /\ ~last'.ok
           /\ last'.it \in LiveSet(mi)
           /\ mi.m_storage[last'.it].first = last'.key)]_vars

C10_Witness ==
  /\ last.op = "emplace" /\ last.res = "exists"
  /\ Len(mi.m_storage) = 2

(***************************************************************************)
(* C11: with tombstones, the erase of a live record only marks it dead:    *)
(* the physical size of the primary and the key and payload of every       *)
(* record are unchanged, exactly the erased record turns dead, no          *)
(* secondary entry refers to it any more, and size() decreases by one.     *)
(***************************************************************************)
C11_TombstoneErase ==
  [][(c_tombstones /\ last'.op = "erase_iter" /\ last'.res = "erased")
       => (/\ Len(mi'.m_storage) = Len(mi.m_storage)
           /\ \A j \in DOMAIN mi.m_storage :
                /\ mi'.m_storage[j].first = mi.m_storage[j].first
                /\ mi'.m_storage[j].m_value = mi.m_storage[j].m_value
                /\ ~Live(mi, j) => ~Live(mi', j)
           /\ Cardinality(LiveSet(mi) \ LiveSet(mi')) = 1
           /\ \A j \in LiveSet(mi) \ LiveSet(mi') :
                /\ mi.m_storage[j].first = last'.key
                /\ \A i \in Secs : RefersTo(mi', i, j) = {}
           /\ size(mi') = size(mi) - 1)]_vars

C11_Witness ==
  /\ c_tombstones /\ last.op = "erase_iter" /\ last.res = "erased"
  /\ Len(mi.m_storage) = 2
  /\ Cardinality(LiveSet(mi)) = 1

(***************************************************************************)
(* C12: with tombstones and a unique primary, an emplace of the key of a   *)
(* dead record that no secondary rejects revives the record: it returns    *)
(* (iterator to the record, true), the record is live with the payload     *)
(* given, has exactly one entry in every secondary, size() has increased   *)
(* by one and the physical size of the primary is unchanged.               *)
(***************************************************************************)
C12_EmplaceRevives ==
  [][(/\ last'.op = "emplace"
      /\ c_tombstones /\ c_primary_is_unique
      /\ PrimFind(mi, last'.key) # End
      /\ ~Live(mi, PrimFind(mi, last'.key))
      /\ last'.res \notin {"sec_reject_revive", "throw_revive"})
       => (/\ last'.ok
           /\ last'.it = PrimFind(mi, last'.key)
           /\ Live(mi', last'.it)
           /\ mi'.m_storage[last'.it].first = last'.key
           /\ mi'.m_storage[last'.it].m_value = last'.val
           /\ \A i \in Secs :
                /\ Cardinality(EntriesOf(mi', i, last'.it)) = 1
                /\ RefersTo(mi', i, last'.it) = EntriesOf(mi', i, last'.it)
           /\ size(mi') = size(mi) + 1
           /\ Len(mi'.m_storage) = Len(mi.m_storage))]_vars

C12_Witness ==
  /\ last.op = "emplace" /\ last.res = "revived"
  /\ Len(mi.m_storage) = 2
  /\ Cardinality(LiveSet(mi)) = 2

(***************************************************************************)
(* C13: with tombstones and a unique primary, an emplace of the key of a   *)
(* dead record that a unique secondary rejects returns (end, false) and    *)
(* leaves the container as it was before the call: the record is dead and  *)
(* holds its pre-call payload, no secondary entry refers to it, every      *)
(* secondary has its pre-call entries and size() is unchanged.             *)
(***************************************************************************)
C13_ReviveRejected ==
  [][(last'.op = "emplace" /\ last'.res = "sec_reject_revive")
       => (/\ last'.it = End
           /\ ~last'.ok
           /\ ~Live(mi', PrimFind(mi, last'.key))
           /\ mi'.m_storage[PrimFind(mi, last'.key)].m_value
                = mi.m_storage[PrimFind(mi, last'.key)].m_value
           /\ \A i \in Secs :
                /\ RefersTo(mi', i, PrimFind(mi, last'.key)) = {}
                /\ SameEntries(mi'.m_second[i], mi.m_second[i])
           /\ size(mi') = size(mi))]_vars

(***************************************************************************)
(* C14: compact() keeps the live (key, payload) records and the records    *)
(* the entries of every secondary resolve to, leaves size() unchanged,     *)
(* leaves no tombstone (the primary has size() records) and, under         *)
(* TranslationArray, leaves a translation array of size() slots.           *)
(***************************************************************************)
LiveCopies(c, k, v) ==
  Cardinality({j \in LiveSet(c) : c.m_storage[j].first = k /\ c.m_storage[j].m_value = v})

SecCopies(c, i, sk, k, v) ==
  Cardinality({e \in DOMAIN c.m_second[i] :
                 /\ c.m_second[i][e].first = sk
                 /\ \E j \in DOMAIN c.m_storage :
                      /\ Resolves(c, c.m_second[i][e], j)
                      /\ c.m_storage[j].first = k
                      /\ c.m_storage[j].m_value = v})

SameContent(c, d) ==
  \A k \in Keys, v \in Payloads :
    /\ LiveCopies(c, k, v) = LiveCopies(d, k, v)
    /\ \A i \in Secs, sk \in Vals : SecCopies(c, i, sk, k, v) = SecCopies(d, i, sk, k, v)

C14_Compact ==
  [][(last'.op = "compact")
       => (/\ SameContent(mi', mi)
           /\ \A i \in Secs : Len(mi'.m_second[i]) = Len(mi.m_second[i])
           /\ size(mi') = size(mi)
           /\ Len(mi'.m_storage) = size(mi')
           /\ LiveSet(mi') = DOMAIN mi'.m_storage
           /\ c_needs_translation_array => Len(mi'.transl) = size(mi'))]_vars

(***************************************************************************)
(* C15: find(key) returns an iterator to a live record with that key when  *)
(* there is one and end() otherwise, dead records of the key being         *)
(* skipped; contains(key) is true exactly when find(key) is not end().     *)
(***************************************************************************)
LiveWithKey(c, k) == {j \in LiveSet(c) : c.m_storage[j].first = k}

C15_Find ==
  last.op = "find"
    => /\ LiveWithKey(mi, last.key) # {} => last.it \in LiveWithKey(mi, last.key)
       /\ LiveWithKey(mi, last.key) = {} => last.it = End
       /\ last.ok <=> last.it # End

C15_Witness ==
  /\ last.op = "find" /\ last.res = "found"
  /\ c_tombstones /\ ~c_primary_is_unique
  /\ last.it = 3
  /\ ~Live(mi, 1) /\ mi.m_storage[1].first = last.key
  /\ ~Live(mi, 2) /\ mi.m_storage[2].first = last.key

(***************************************************************************)
(* C16: under tombstones, a loop over the range equal_range(key) returns   *)
(* visits exactly the live records with that key, and count(key) is the    *)
(* number of records visited.                                              *)
(***************************************************************************)
C16_EqualRange ==
  (c_tombstones /\ last.op = "equal_range")
    => /\ Visit(mi, equal_range(mi, last.key)[1], equal_range(mi, last.key)[2])
            = LiveWithKey(mi, last.key)
       /\ last.at = Cardinality(LiveWithKey(mi, last.key))
       /\ LiveWithKey(mi, last.key) # {} => last.it = SetMin(LiveWithKey(mi, last.key))
       /\ last.ok <=> LiveWithKey(mi, last.key) # {}

C16_Witness ==
  /\ c_tombstones /\ ~c_primary_is_unique
  /\ last.op = "equal_range" /\ last.at = 2
  /\ Len(mi.m_storage) = 3
  /\ \A j \in 1..3 : mi.m_storage[j].first = last.key
  /\ Live(mi, 1) /\ ~Live(mi, 2) /\ Live(mi, 3)

(***************************************************************************)
(* C17: erase by secondary key sk on secondary i removes exactly the live  *)
(* records whose projection under i is sk and returns their number: no     *)
(* such record is live afterwards, no entry of any secondary refers to     *)
(* one, every other record and its entries are as before, and size() has   *)
(* decreased by the number returned.                                       *)
(***************************************************************************)
C17_EraseBySecondary ==
  [][(last'.op = "erase_sec")
       => (/\ \A k \in Keys, v \in Payloads :
                IF Project(last'.at, k, v) = last'.key
                THEN /\ LiveCopies(mi', k, v) = 0
                     /\ \A i \in Secs, sk \in Vals : SecCopies(mi', i, sk, k, v) = 0
                ELSE /\ LiveCopies(mi', k, v) = LiveCopies(mi, k, v)
                     /\ \A i \in Secs, sk \in Vals :
                          SecCopies(mi', i, sk, k, v) = SecCopies(mi, i, sk, k, v)
           /\ last'.it = Cardinality({j \in LiveSet(mi) :
                             Project(last'.at, mi.m_storage[j].first, mi.m_storage[j].m_value)
                               = last'.key})
           /\ size(mi') = size(mi) - last'.it)]_vars

(***************************************************************************)
(* C18: erase(key) returns the number of live records with the key and     *)
(* removes all of them, every other record and its entries staying as      *)
(* before; when no live record has the key it returns 0 and leaves the     *)
(* container unchanged.                                                    *)
(***************************************************************************)
C18_EraseByKey ==
  [][(last'.op = "erase_key")
       => (/\ last'.it = Cardinality(LiveWithKey(mi, last'.key))
           /\ LiveWithKey(mi', last'.key) = {}
           /\ \A k \in Keys, v \in Payloads :
                IF k = last'.key
                THEN \A i \in Secs, sk \in Vals : SecCopies(mi', i, sk, k, v) = 0
                ELSE /\ LiveCopies(mi', k, v) = LiveCopies(mi, k, v)
                     /\ \A i \in Secs, sk \in Vals :
                          SecCopies(mi', i, sk, k, v) = SecCopies(mi, i, sk, k, v)
           /\ size(mi') = size(mi) - last'.it
           /\ LiveWithKey(mi, last'.key) = {} => mi' = mi)]_vars

C18_Witness ==
  /\ last.op = "erase_key" /\ last.it = 3

(***************************************************************************)
(* C19: under tombstones, a modify or replace of a dead record that no     *)
(* unique secondary rejects revives it (live, the mutated payload, one     *)
(* entry in every secondary, size() one more); one that a unique secondary *)
(* rejects returns false and leaves the record dead with its old payload,  *)
(* the secondaries with their entries and size() unchanged.                *)
(***************************************************************************)
C19_UpdateDead ==
  [][(/\ last'.op \in {"modify", "replace"}
      /\ last'.res \notin {"mut_throw", "sec_throw"}
      /\ ~Live(mi, last'.it))
       => IF last'.res = "sec_reject"
          THEN /\ ~last'.ok
               /\ ~Live(mi', last'.it)
               /\ mi'.m_storage[last'.it].m_value = mi.m_storage[last'.it].m_value
               /\ \A i \in Secs : SameEntries(mi'.m_second[i], mi.m_second[i])
               /\ size(mi') = size(mi)
          ELSE /\ last'.ok
               /\ Live(mi', last'.it)
               /\ mi'.m_storage[last'.it].m_value = last'.val
               /\ \A i \in Secs :
                    /\ Cardinality(EntriesOf(mi', i, last'.it)) = 1
                    /\ RefersTo(mi', i, last'.it) = EntriesOf(mi', i, last'.it)
               /\ size(mi') = size(mi) + 1]_vars

C19_Witness ==
  /\ last.op = "modify" /\ last.res = "revived"
  /\ Cardinality(LiveSet(mi)) = 2
  /\ mi.m_live = 2

(***************************************************************************)
(* C20 as claimed: replace(iter, v) with v equal to the payload of the     *)
(* record iter designates returns true and changes neither size(), the     *)
(* liveness of any record, the result of any find nor the contents of any  *)
(* secondary.                                                              *)
(***************************************************************************)
C20_ReplaceSame ==
  [][(/\ last'.op = "replace"
      /\ last'.val = mi.m_storage[last'.it].m_value)
       => (/\ last'.ok
           /\ size(mi') = size(mi)
           /\ LiveSet(mi') = LiveSet(mi)
           /\ \A k \in Keys : find(mi', k) = find(mi, k)
           /\ mi'.m_second = mi.m_second)]_vars

(***************************************************************************)
(* C20 amended: replace(iter, v) with v equal to the payload of the live   *)
(* record iter designates returns true and changes nothing.                *)
(***************************************************************************)
C20_ReplaceSameLive ==
  [][(/\ last'.op = "replace"
      /\ last'.val = mi.m_storage[last'.it].m_value
      /\ Live(mi, last'.it))
       => (last'.ok /\ mi' = mi)]_vars

C20_Witness ==
  /\ last.op = "replace" /\ last.res = "same"
  /\ Len(mi.m_storage) = 2
  /\ mi.m_storage[last.it].m_value = last.val

(***************************************************************************)
(* C21: modify(iter, id) with the identity function on a live record       *)
(* returns true and leaves the payload and every secondary unchanged:      *)
(* each secondary holds the same entries at the same positions as before   *)
(* the call.                                                               *)
(***************************************************************************)
C21_ModifyIdentity ==
  [][(/\ last'.op = "modify"
      /\ last'.res \notin {"mut_throw", "sec_throw"}
      /\ Live(mi, last'.it)
      /\ last'.val = mi.m_storage[last'.it].m_value)
       => (/\ last'.ok
           /\ mi'.m_storage[last'.it].m_value = mi.m_storage[last'.it].m_value
           /\ mi'.m_second = mi.m_second)]_vars

(***************************************************************************)
(* C22: for a key k with no live record and a payload every unique         *)
(* secondary accepts, emplace(k, v) followed by erase(k) gives back the    *)
(* live records, the secondary entries and size() of before the emplace    *)
(* (a tombstone or a stale slot may have been added), and compact() of the *)
(* state before and of the state after are equal.                          *)
(***************************************************************************)
SameObservable(c, d) ==
  /\ SameContent(c, d)
  /\ \A i \in Secs : Len(c.m_second[i]) = Len(d.m_second[i])
  /\ size(c) = size(d)

C22_EmplaceErase ==
  [][(/\ last'.op = "emplace"
      /\ last'.ok
      /\ LiveWithKey(mi, last'.key) = {})
       => (/\ SameObservable(erase_key(mi', last'.key).c, mi)
           /\ erase_key(mi', last'.key).removed = 1
           /\ compact(erase_key(mi', last'.key).c) = compact(mi)
           /\ (~c_tombstones /\ ~c_needs_translation_array)
                => erase_key(mi', last'.key).c = mi)]_vars

C22_Witness ==
  /\ last.op = "emplace" /\ last.res = "inserted"
  /\ c_tombstones
  /\ Len(mi.m_storage) = 2
  /\ Cardinality(LiveSet(mi)) = 1
  /\ Cardinality(LiveSet(erase_key(mi, last.key).c)) = 0
  /\ Len(erase_key(mi, last.key).c.m_storage) = 2

(***************************************************************************)
(* C30 as claimed: on a unique primary, insert_or_assign(k, v) reports     *)
(* inserted = true exactly when no live record with key k existed before   *)
(* the call, and after it find(k) designates a live record whose payload   *)
(* is v and whose secondary entries are those of v.                        *)
(***************************************************************************)
AssignedTo(c, k, v) ==
  /\ find(c, k) # EndPos(c)
  /\ Live(c, find(c, k))
  /\ c.m_storage[find(c, k)].first = k
  /\ c.m_storage[find(c, k)].m_value = v
  /\ \A i \in Secs :
       /\ Cardinality(EntriesOf(c, i, find(c, k))) = 1
       /\ RefersTo(c, i, find(c, k)) = EntriesOf(c, i, find(c, k))

C30_InsertOrAssign ==
  [][(last'.op = "insert_or_assign")
       => (/\ last'.ok <=> LiveWithKey(mi, last'.key) = {}
           /\ AssignedTo(mi', last'.key, last'.val))]_vars

(***************************************************************************)
(* C30 amended: the same, for a payload that no unique secondary rejects.  *)
(***************************************************************************)
C30_InsertOrAssignAccepted ==
  [][(/\ last'.op = "insert_or_assign"
      /\ last'.res \notin {"assign_rejected", "sec_reject", "sec_reject_revive"})
       => (/\ last'.ok <=> LiveWithKey(mi, last'.key) = {}
           /\ AssignedTo(mi', last'.key, last'.val))]_vars

C30_Witness ==
  /\ last.op = "insert_or_assign" /\ last.res = "assigned"
  /\ Cardinality(LiveSet(mi)) = 2
  /\ \A i \in Secs : Len(mi.m_second[i]) = 2

(***************************************************************************)
(* The invariants of a container: coherence (every live record has exactly *)
(* one matching entry in every secondary, every entry refers to a live     *)
(* record), uniqueness, live count, and, with a translation array, the     *)
(* slot of every live record holds the address of the record.              *)
(***************************************************************************)
LiveRecords(c) == {<<c.m_storage[j].first, c.m_storage[j].m_value>> : j \in LiveSet(c)}

InvariantsOf(c) ==
  /\ \A j \in LiveSet(c) : \A i \in Secs : Cardinality(EntriesOf(c, i, j)) = 1
  /\ \A i \in Secs : \A e \in DOMAIN c.m_second[i] :
       \E j \in LiveSet(c) : Resolves(c, c.m_second[i][e], j)
  /\ \A j1, j2 \in LiveSet(c) :
       j1 # j2 =>
         /\ c_primary_is_unique => c.m_storage[j1].first # c.m_storage[j2].first
         /\ \A i \in Secs :
              is_unique_v(i) =>
                Project(i, c.m_storage[j1].first, c.m_storage[j1].m_value)
                  # Project(i, c.m_storage[j2].first, c.m_storage[j2].m_value)
  /\ size(c) = Cardinality(LiveSet(c))
  /\ c_needs_translation_array =>
       \A j \in LiveSet(c) : TranslAt(c, c.m_storage[j].trans_idx) = c.m_storage[j].addr

OwnEntries(c, peer) ==
  \A i \in Secs : \A e \in DOMAIN c.m_second[i] :
    /\ \E j \in Positions(c) : Resolves(c, c.m_second[i][e], j)
    /\ c_stores_handle => ~HasPair(peer, c.m_second[i][e].second)

(***************************************************************************)
(* C23: after the copy construction or copy assignment B = A, B has        *)
(* exactly the live (key, payload) records of A and as many of them, no    *)
(* dead record when the policy is invalidating, and secondary entries that *)
(* resolve to records of B only, and A is as it was; an emplace, erase,    *)
(* modify or replace on B leaves the primary, the secondaries and size()   *)
(* of A unchanged; after each of these calls all invariants hold in both   *)
(* containers.                                                             *)
(***************************************************************************)
C23_CopyIndependent ==
  [][/\ (last'.op \in {"copy_ctor", "copy_assign"})
          => (/\ LiveRecords(other') = LiveRecords(mi)
              /\ size(other') = size(mi)
              /\ c_invalidates => LiveSet(other') = Positions(other')
              /\ OwnEntries(other', mi')
              /\ mi' = mi)
     /\ (last'.op \in {"b_emplace", "b_erase", "b_modify", "b_replace"})
          => (/\ mi'.m_storage = mi.m_storage
              /\ mi'.m_second = mi.m_second
              /\ size(mi') = size(mi))
     /\ (last'.op \in {"copy_ctor", "copy_assign", "b_emplace", "b_erase", "b_modify", "b_replace"})
          => (InvariantsOf(mi') /\ InvariantsOf(other'))]_vars

(***************************************************************************)
(* C24: after the move construction or move assignment of D from a         *)
(* distinct container S, D has exactly the live (key, payload) records S   *)
(* had, with the same size(), every secondary of D has the entries S had   *)
(* and each of them resolves to a record of D, with a translation array    *)
(* the slot of every live record of D holds the address of the record, and *)
(* S reports size() = 0 and is empty; a copy or move assignment of a       *)
(* container to itself leaves the container as it was.                     *)
(***************************************************************************)
empty(c) == size(c) = 0

SameRecords(s, t) ==
  /\ Len(s) = Len(t)
  /\ \A j \in DOMAIN s : [s[j] EXCEPT !.m_p_owner = 0] = [t[j] EXCEPT !.m_p_owner = 0]

TookOver(c, d) ==
  /\ SameRecords(c.m_storage, d.m_storage)
  /\ c.m_second = d.m_second
  /\ c.transl = d.transl
  /\ size(c) = size(d)

C25_Swap ==
  [][(last'.op = "swap")
       => (/\ TookOver(mi', other)
           /\ TookOver(other', mi)
           /\ InvariantsOf(mi')
           /\ InvariantsOf(other')
           /\ swap(mi', other') = <<mi, other>>)]_vars

(***************************************************************************)
(* C27: abort() on an edit proxy leaves the container as it is, and so     *)
(* does the destruction of the proxy after abort(), whatever was written   *)
(* to the buffer: for a key without record no record is created, size()    *)
(* is unchanged and contains(k) is false, and for a key with a record the  *)
(* stored payload and every secondary are unchanged; writing the buffer    *)
(* does not change the container either.                                   *)
(***************************************************************************)
C27_AbortChangesNothing ==
  [][/\ (last'.op = "abort" \/ (last.op = "abort" /\ last'.op = "destroy"))
          => (/\ mi' = mi
              /\ PrimFind(mi, last'.key) = End
                   => (size(mi') = size(mi) /\ ~contains(mi', last'.key)))
     /\ (proxy.open /\ proxy'.open /\ proxy'.m_buf # proxy.m_buf) => mi' = mi]_vars

C27_Witness ==
  /\ last.op = "destroy" /\ last.res = "aborted"
  /\ last.val \in PairPayloads
  /\ \E j \in LiveSet(mi) :
       /\ mi.m_storage[j].first = last.key
       /\ mi.m_storage[j].m_value # last.val
  /\ \E k \in Keys : PrimFind(mi, k) = End

(***************************************************************************)
(* C26: the commit of an edit proxy of key k, called explicitly or made by *)
(* the destructor when neither commit() nor abort() was called, emplaces   *)
(* the pair when k has no record, replaces the payload when the record of  *)
(* k is live and revives the record when it is dead; when the commit       *)
(* reports success, find(k) is a live record with the payload of the       *)
(* buffer and one entry for that payload in every secondary; when it       *)
(* reports failure without an exception, the container is as it was        *)
(* before the commit.                                                      *)
(***************************************************************************)
Committing ==
  /\ proxy.open /\ ~proxy.m_committed
  /\ last'.op \in {"commit", "destroy"}

C26_ProxyCommit ==
  [][(Committing /\ ~Thrown([res |-> last'.res]))
       => (/\ last'.ok
             => (/\ contains(mi', proxy.key)
                 /\ mi'.m_storage[find(mi', proxy.key)].m_value = proxy.m_buf
                 /\ \A i \in Secs :
                      /\ Cardinality(EntriesOf(mi', i, find(mi', proxy.key))) = 1
                      /\ RefersTo(mi', i, find(mi', proxy.key))
                           = EntriesOf(mi', i, find(mi', proxy.key))
                 /\ IF PrimFind(mi, proxy.key) = End
                    THEN Len(mi'.m_storage) = Len(mi.m_storage) + 1
                    ELSE /\ Len(mi'.m_storage) = Len(mi.m_storage)
                         /\ size(mi') = IF Live(mi, PrimFind(mi, proxy.key))
                                        THEN size(mi) ELSE size(mi) + 1)
           /\ ~last'.ok => mi' = mi)]_vars

(***************************************************************************)
(* C28: in every state of an interleaving of emplace calls under the       *)
(* concurrent subset, the record a secondary entry resolves to is in the   *)
(* primary and find(key) finds it live; a record that find(key) finds live *)
(* lacks an entry in a secondary only while an emplace call is at work on  *)
(* that record.                                                            *)
(***************************************************************************)
InProgress(j) ==
  \E t \in Threads :
    /\ procs[t].pc \notin {"idle", "done"}
    /\ procs[t].h = mi.m_storage[j].addr

C28_PublicationOrder ==
  /\ \A i \in Secs : \A e \in DOMAIN mi.m_second[i] :
       \E j \in Positions(mi) :
         /\ Resolves(mi, mi.m_second[i][e], j)
         /\ find(mi, mi.m_storage[j].first) = j
  /\ \A j \in LiveSet(mi) :
       (\E i \in Secs : EntriesOf(mi, i, j) = {}) => InProgress(j)

(***************************************************************************)
(* C29: under the concurrent subset, once all the emplace calls of the     *)
(* threads have returned, secondary coherence, uniqueness and the live     *)
(* count hold, and no two of the calls made for one key have reported      *)
(* inserted = true.                                                        *)
(***************************************************************************)
C29_ConcurrentEmplace ==
  (Quiescent /\ ~NotStarted)
    => (/\ InvariantsOf(mi)
        /\ \A t1, t2 \in Threads :
             (t1 # t2 /\ procs[t1].pc = "done" /\ procs[t2].pc = "done"
                /\ procs[t1].key = procs[t2].key)
               => ~(procs[t1].ok /\ procs[t2].ok))

(***************************************************************************)
(* Relocating primaries under emplace and erase only: flat unique-key      *)
(* primaries that shift their records on every insertion and removal,      *)
(* with at most MaxTransl translation slots, under both policies that      *)
(* follow a relocation, with secondaries that reject and that do not.      *)
(***************************************************************************)
ConfigsReloc ==
  { Config("UpdatePointer", FALSE, TRUE, TRUE, FALSE, TRUE),
    Config("UpdatePointer", FALSE, TRUE, TRUE, FALSE, FALSE),
    Config("TranslationArray", FALSE, TRUE, TRUE, TRUE, FALSE),
    Config("TranslationArray", FALSE, TRUE, TRUE, FALSE, FALSE) }

InitReloc ==
  /\ cfg \in ConfigsReloc
  /\ mi = EmptyMI(1)
  /\ last = NoCall
  /\ other = EmptyMI(2)
  /\ proxy = NoProxy
  /\ procs = NoProcs

EmplaceReloc ==
  /\ Idle
  /\ \E k \in Keys, v \in PairPayloads :
       LET r == emplace(mi, k, v, 0, NullH)
       IN /\ Len(mi.m_storage) < MaxEqual \/ (c_primary_is_unique /\ PrimFind(mi, k) # End)
          /\ Len(mi.transl) < MaxTransl
          /\ DoV("emplace", r, k, v)

EmplaceRelocThrow ==
  /\ Idle
  /\ \E k \in Keys, v \in PairPayloads, thr \in Secs :
       LET r == emplace(mi, k, v, thr, NullH)
       IN /\ Len(mi.m_storage) < MaxEqual \/ (c_primary_is_unique /\ PrimFind(mi, k) # End)
          /\ Len(mi.transl) < MaxTransl
          /\ r.res = "throw"
          /\ DoV("emplace", r, k, v)

NextReloc ==
  \/ EmplaceReloc
  \/ EmplaceRelocThrow
  \/ EraseKey
  \/ EraseIter
  \/ EraseSec
  \/ Return

SpecReloc == InitReloc /\ [][NextReloc]_vars

(***************************************************************************)
(* C31: under UpdatePointer with a primary that relocates its records,     *)
(* after any sequence of emplace and erase calls (by key, by iterator, by  *)
(* secondary key) every secondary entry stores the current address of a    *)
(* record whose projected key is the entry's key, and every surviving      *)
(* record is the one a lookup by its projected key resolves to, through    *)
(* exactly one entry of each secondary.                                    *)
(***************************************************************************)
C31_RelocatedHandles ==
  cfg.policy = "UpdatePointer"
    => (/\ \A i \in Secs : \A e \in DOMAIN mi.m_second[i] :
             \E j \in Positions(mi) :
               /\ mi.m_second[i][e].second = mi.m_storage[j].addr
               /\ mi.m_second[i][e].first =
                    Project(i, mi.m_storage[j].first, mi.m_storage[j].m_value)
        /\ \A j \in Positions(mi) : \A i \in Secs :
             Cardinality(EntriesOf(mi, i, j)) = 1)

C31_Witness ==
  /\ cfg.policy = "UpdatePointer"
  /\ last.op \in {"erase_key", "erase_iter", "erase_sec"}
  /\ last.ok
  /\ \E j \in Positions(mi) :
       /\ mi.m_storage[j].first = MaxKey
       /\ j < MaxKey
       /\ \A i \in Secs : EntriesOf(mi, i, j) # {}

(***************************************************************************)
(* C32: under TranslationArray, in every state between calls each live     *)
(* record has a slot of the translation array that holds its current       *)
(* address, no two live records have the same slot, and every ordinal      *)
(* stored in a secondary is the slot of a record of the primary and        *)
(* resolves to that record's address.                                      *)
(***************************************************************************)
SlotOf(c, j) == c.m_storage[j].trans_idx

C32_TranslationResolves ==
  c_needs_translation_array
    => (/\ \A j \in LiveSet(mi) :
             /\ SlotOf(mi, j) + 1 \in DOMAIN mi.transl
             /\ TranslAt(mi, SlotOf(mi, j)) = mi.m_storage[j].addr
        /\ \A j1, j2 \in LiveSet(mi) : SlotOf(mi, j1) = SlotOf(mi, j2) => j1 = j2
        /\ \A i \in Secs : \A e \in DOMAIN mi.m_second[i] :
             \E j \in Positions(mi) :
               /\ SlotOf(mi, j) = mi.m_second[i][e].second
               /\ Resolves(mi, mi.m_second[i][e], j))

C32_Witness ==
  /\ c_needs_translation_array
  /\ cfg.reloc
  /\ last.op = "erase_key"
  /\ last.ok
  /\ \E j \in LiveSet(mi) :
       /\ SlotOf(mi, j) + 1 # j
       /\ Len(mi.transl) > Len(mi.m_storage)
       /\ \A i \in Secs : EntriesOf(mi, i, j) # {}

(***************************************************************************)
(* C33: under TranslationArray the slots of the translation array and the  *)
(* live records are in one-to-one correspondence: every live record owns   *)
(* exactly one slot and every slot belongs to exactly one live record.     *)
(* C33_SlotBijection is that statement.  C33_SlotsOfLive is the part of it *)
(* that erase preserves: every live record owns a slot of its own, every   *)
(* slot that a secondary entry stores belongs to exactly one live record,  *)
(* and the correspondence is exact after compact() and after clear(); the  *)
(* slot of an erased record stays in the array until then.                 *)
(***************************************************************************)
OwnersOf(c, s) == {j \in LiveSet(c) : SlotOf(c, j) + 1 = s}

C33_SlotBijection ==
  c_needs_translation_array
    => (/\ \A j \in LiveSet(mi) : SlotOf(mi, j) + 1 \in DOMAIN mi.transl
        /\ \A s \in DOMAIN mi.transl : Cardinality(OwnersOf(mi, s)) = 1)

C33_SlotsOfLive ==
  c_needs_translation_array
    => (/\ \A j \in LiveSet(mi) : SlotOf(mi, j) + 1 \in DOMAIN mi.transl
        /\ \A s \in DOMAIN mi.transl : Cardinality(OwnersOf(mi, s)) <= 1
        /\ \A i \in Secs : \A e \in DOMAIN mi.m_second[i] :
             Cardinality(OwnersOf(mi, mi.m_second[i][e].second + 1)) = 1
        /\ last.op \in {"compact", "clear"}
             => \A s \in DOMAIN mi.transl : Cardinality(OwnersOf(mi, s)) = 1)

C33_Witness ==
  /\ c_needs_translation_array
  /\ last.op \in {"erase_key", "erase_iter", "erase_sec"}
  /\ last.ok
  /\ LiveSet(mi) # {}
  /\ \E s \in DOMAIN mi.transl : OwnersOf(mi, s) = {}
  /\ \A j \in LiveSet(mi) : \A i \in Secs : EntriesOf(mi, i, j) # {}

(***************************************************************************)
(* C34: under the policies whose records carry an owner back-pointer       *)
(* (c_invalidates), between calls every record of a container, live or     *)
(* dead, has its back-pointer equal to the container that stores it: in    *)
(* both containers after emplace, revival, erase, copy, move construction, *)
(* move assignment and swap.                                               *)
(***************************************************************************)
OwnedBy(c) == \A j \in Positions(c) : c.m_storage[j].m_p_owner = c.self

Content(c) ==
  [j \in DOMAIN c.m_storage |->
     <<c.m_storage[j].first, c.m_storage[j].m_value, c.m_storage[j].dead>>]

NextLive(c, p) == SetMin({q \in LiveSet(c) : q > p} \cup {EndPos(c)})

ErasedAt(p) ==
  /\ mi.m_storage[p].first = last'.key
  /\ IF c_tombstones
     THEN /\ Content(mi') = [Content(mi) EXCEPT ![p] = <<@[1], @[2], TRUE>>]
          /\ last'.it = ItOut(mi', NextLive(mi, p))
     ELSE /\ Content(mi') = Content([mi EXCEPT !.m_storage = RemoveAt(@, p)])
          /\ last'.it = ItOut(mi', p)
          /\ p < EndPos(mi') => Content(mi')[p] = Content(mi)[p + 1]

C35_EraseIterNext ==
  [][/\ (last'.op = "erase_iter" /\ last'.res = "erased")
          => \E p \in LiveSet(mi) : ErasedAt(p)
     /\ (last'.op = "erase_iter" /\ last'.res = "end")
          => (mi' = mi /\ last'.it = End)
     /\ last'.op = "erase_loop"
          => /\ last'.at = Cardinality(LiveSet(mi))
             /\ LiveSet(mi') = {}
             /\ \A i \in Secs : mi'.m_second[i] = <<>>]_vars

C35_Witness ==
  /\ last.op = "erase_loop"
  /\ last.at = MaxEqual - 1
  /\ c_tombstones
  /\ Len(mi.m_storage) = MaxEqual

(***************************************************************************)
(* C36: when a secondary insertion throws while an edit-proxy commit       *)
(* (explicit, or implicit in the destructor) is reviving a dead record,    *)
(* the record is dead afterwards, no secondary holds an entry for it,      *)
(* size() is as before, the implicit commit reports failure, and size()    *)
(* is still the number of live records if it was before the commit.        *)
(***************************************************************************)
RevivingThrow ==
  /\ Committing
  /\ proxy.m_h # NullH
  /\ last'.res = "throw_revive"

C36_ProxyReviveThrow ==
  [][RevivingThrow
       => (/\ mi'.m_storage[IdxOf(mi', proxy.m_h)].dead
           /\ \A i \in Secs : RefersTo(mi', i, IdxOf(mi', proxy.m_h)) = {}
           /\ size(mi') = size(mi)
           /\ last'.op = "destroy" => ~last'.ok
           /\ size(mi) = Cardinality(LiveSet(mi))
                => size(mi') = Cardinality(LiveSet(mi')))]_vars

(***************************************************************************)
(* C37: the removal loops reach their end-of-range condition in every      *)
(* reachable state.  erase(key) makes at most as many iterations as the    *)
(* raw equal range of the key has records, each iteration removing one     *)
(* live record, also when the range starts with, contains or ends with     *)
(* dead records and when it is the last range of the map; erase by         *)
(* secondary key makes one iteration for each entry of the sub-key and     *)
(* removes one live record in each.                                        *)
(***************************************************************************)
RawRange(c, k) == EqualRange(c.m_storage, k)

C37_RemovalLoopsEnd ==
  [][/\ last'.op = "erase_key"
          => /\ last'.it <= Cardinality(RawRange(mi, last'.key))
             /\ Cardinality(LiveSet(mi')) = Cardinality(LiveSet(mi)) - last'.it
     /\ last'.op = "erase_sec"
          => /\ last'.it = Cardinality(EqualRange(mi.m_second[last'.at], last'.key))
             /\ EqualRange(mi'.m_second[last'.at], last'.key) = {}
             /\ Cardinality(LiveSet(mi')) = Cardinality(LiveSet(mi)) - last'.it]_vars

C37_Witness ==
  /\ c_tombstones
  /\ ~c_primary_is_unique
  /\ last.op = "erase_key"
  /\ last.it = 1
  /\ Cardinality(RawRange(mi, last.key)) = MaxEqual

(***************************************************************************)
(* Erase through iterators of a tombstone primary: the primary iterator,   *)
(* which may have been kept across the erase of its record, and the raw    *)
(* iterator of primary(), which T_LiveIter's constructor moves to the next *)
(* live record before the erase.                                           *)
(***************************************************************************)
erase_raw(c, p) == erase_iter(c, SkipDead(c, p))

InitStale ==
  /\ cfg \in {c \in Configs : c.tombs}
  /\ mi = EmptyMI(1)
  /\ last = NoCall
  /\ other = EmptyMI(2)
  /\ proxy = NoProxy
  /\ procs = NoProcs

EraseRaw ==
  /\ Idle
  /\ \E p \in Positions(mi) \cup {EndPos(mi)} :
       LET r == erase_raw(mi, p)
       IN /\ Fits(r.c)
          /\ Do("erase_raw",
                Ret(r.c, IF p = EndPos(mi) THEN "end"
                         ELSE IF mi.m_storage[p].dead THEN "tombstone" ELSE "erased",
                    p # EndPos(mi), ItOut(r.c, r.next), 0),
                IF p = EndPos(mi) THEN 0 ELSE mi.m_storage[p].first)

NextStale ==
  \/ Emplace
  \/ EraseKey
  \/ EraseIter
  \/ EraseRaw
  \/ Return

SpecStale == InitStale /\ [][NextStale]_vars

(***************************************************************************)
(* C38: under tombstones, an erase through an iterator that designates an  *)
(* already-dead record (a primary iterator kept across the erase of its    *)
(* record, or a raw primary-storage iterator positioned on a tombstone)    *)
(* removes no live record and leaves size() and every secondary unchanged. *)
(***************************************************************************)
C38_EraseDead ==
  [][((last'.op = "erase_iter" /\ last'.res = "stale")
        \/ (last'.op = "erase_raw" /\ last'.res = "tombstone"))
       => (/\ Content(mi') = Content(mi)
           /\ size(mi') = size(mi)
           /\ mi'.m_second = mi.m_second)]_vars

(***************************************************************************)
(* Readers under the concurrent subset: find(key) / contains(key) is one   *)
(* lookup in the concurrent primary map, taken between two steps of the    *)
(* emplace calls.  The observation keeps the key, whether a live record    *)
(* was found, its position, and the emplace call (the least thread, 0 if   *)
(* none) that is at work on the record found.                              *)
(***************************************************************************)
AtWork(c, j) ==
  {t \in Threads : procs[t].pc \notin {"idle", "done"} /\ procs[t].h = c.m_storage[j].addr}

FindConc ==
  /\ \E k \in Keys :
       LET j == find(mi, k)
           found == contains(mi, k)
       IN last' = [NoCall EXCEPT
                     !.op = "find",
                     !.res = IF found THEN "found" ELSE "absent",
                     !.ok = found,
                     !.it = ItOut(mi, j),
                     !.at = IF found /\ AtWork(mi, j) # {} THEN SetMin(AtWork(mi, j)) ELSE 0,
                     !.key = k]
  /\ UNCHANGED <<cfg, mi, other, proxy, procs>>

NextReaders ==
  \/ EmplaceCall
  \/ EmplaceStep
  \/ EmplaceAlone
  \/ EraseAlone
  \/ FindConc

SpecReaders == InitConc /\ [][NextReaders]_vars

(***************************************************************************)
(* C39: under the concurrent subset, a find(key) or contains(key) that     *)
(* runs concurrently with emplace never reports a record whose emplace     *)
(* call ends by returning inserted = false after a unique secondary        *)
(* rejected it.                                                            *)
(***************************************************************************)
C39_NoRolledBackRecordSeen ==
  \A t \in Threads :
    (last.op = "find" /\ last.ok /\ last.at = t /\ procs[t].pc = "done") => procs[t].ok

====
